---- MODULE Spec2Model ----
(***************************************************************************)
(* Session engine of the record-and-replay proxy: the session registry     *)
(* (SessionManager), the per-session request pipeline (Session), the       *)
(* interaction store (Storage) and the matcher (RequestMatcher), as they   *)
(* are written in src/src/session/manager.rs, src/src/http/handlers.rs,    *)
(* src/src/storage/memory.rs and src/src/matching/matcher.rs.              *)
(***************************************************************************)
EXTENDS Integers, Sequences, FiniteSets, TLC

\* ------------------------------------------------------------------ bounds

\* Number of data-plane requests a behaviour serves (each may run concurrently
\* with the others and with the control plane).
MaxRequests == 2

\* Longest incoming header list of the header-sanitisation specification, and
\* the largest number of header names of an upstream response.
MaxHeaders == 2

\* Largest number of values an upstream response has under one header name.
MaxValues == 2

\* Number of storage calls a behaviour of the filesystem store makes (each may
\* run concurrently with the others).
MaxTasks == 3
MaxUpdates == 2
MaxFrames == 2
MaxStored == 2
MaxLockTasks == 3
MaxBody == 3

\* ------------------------------------------------------------- input sets

SessionIds == {"s1", "s2"}
RequestKeys == {<<"GET", "/a">>, <<"POST", "/a">>, <<"GET", "/b">>}
Modes == {"Record", "Replay", "Passthrough"}
Reqs == 1 .. MaxRequests

\* What an upstream may answer: a status code and a body.
UpstreamResponses == {[status |-> 200, body |-> "ok"], [status |-> 404, body |-> "gone"]}

\* The X-Proxy-Target header of a request: absent, an absolute URL, or a value
\* with which the forward URL does not parse.
ProxyTargetHeader == {"absent", "valid", "invalid"}

\* Session objects (Arc<Session>). Each session id has its own pool: one for
\* its registry entry plus one per handle a request may still hold after the
\* session was deleted.
PoolSize == 1 + MaxRequests
NumObjs == Cardinality(SessionIds) * PoolSize
Objs == 1 .. NumObjs
NoObj == 0
NoReq == 0

NoneStr == "-"
MissBody == "No matching interaction found"

VARIABLES
    registry,      \* SessionManager.sessions: session id -> session object (NoObj: absent)
    objs,          \* the Session objects: config.mode and the holder of last_access
    interactions,  \* Storage: session id -> list of stored interactions
    req,           \* the data-plane requests (handle_api_request tasks)
    out,           \* the latest response sent to a data-plane client
    recorded,      \* history: (session, method, path) recorded since the session's last clear
    hIn,           \* header loop: the incoming header names, as received
    hPos,          \* header loop: number of incoming headers visited
    hOut,          \* header loop: the header names put on the outbound request
    call,          \* function-level runs: the function called and its arguments
    ret,           \* function-level runs: what the call returned
    fsDirs,        \* filesystem store: the directories under base_path
    fsFiles,       \* filesystem store: the interaction files
    fsTask,        \* filesystem store: the storage calls (tasks)
    fsStored,      \* history: stores that returned ok, their session not cleared since
    config,        \* config lock: one Session's config (mode) and the holder of its write lock
    upd,           \* config lock: the update_session_config calls
    proc,          \* config lock: the requests in Session::process_request
    pipe,          \* forwarding pipeline: one request in handle_http_request
    ltask,         \* lock discipline: the tasks (requests and control operations) of one session id
    locks          \* lock discipline: the registry entry, the config and who holds which lock

vars ==
    <<registry, objs, interactions, req, out, recorded, hIn, hPos, hOut, call, ret,
      fsDirs, fsFiles, fsTask, fsStored, config, upd, proc, pipe, ltask, locks>>
hvars == <<hIn, hPos, hOut>>
evars == <<registry, objs, interactions, req, out, recorded>>
fsvars == <<fsDirs, fsFiles, fsTask, fsStored>>
lvars == <<ltask, locks>>
pvars == <<pipe, lvars>>
cvars == <<config, upd, proc, pvars>>
fvars == <<call, ret, fsvars, cvars>>

\* ------------------------------------------------------------ initial state

\* The Session built in create_session: mode Record, last_access unlocked.
FreshSession == [mode |-> "Record", holder |-> NoReq]

IdleReq ==
    [pc |-> "idle", sid |-> NoneStr, method |-> NoneStr, path |-> NoneStr,
     handle |-> NoObj, mode |-> NoneStr]

DoneReq == [IdleReq EXCEPT !.pc = "done"]

\* No data-plane response was sent yet.
NoOut == [kind |-> "none", status |-> 0, body |-> NoneStr]

\* SessionManager::new with an empty MemoryStorage.
InitEngine ==
    /\ registry = [id \in SessionIds |-> NoObj]
    /\ objs = [o \in Objs |-> FreshSession]
    /\ interactions = [id \in SessionIds |-> <<>>]
    /\ req = [r \in Reqs |-> IdleReq]
    /\ out = NoOut
    /\ recorded = {}

\* No header loop is running.
HeadersIdle ==
    /\ hIn = <<>>
    /\ hPos = 0
    /\ hOut = <<>>

\* No function-level call is made.
NoCall == [fn |-> "none"]
NoRet == [fn |-> "none"]
CallsIdle == call = NoCall /\ ret = NoRet

\* Storage calls of the filesystem store.
FsTasks == 1 .. MaxTasks
IdleTask == [pc |-> "idle", op |-> NoneStr, sid |-> <<>>, res |-> NoneStr, items |-> {}]

\* FileSystemStorage::new on an empty base directory.
InitFs ==
    /\ fsDirs = {}
    /\ fsFiles = {}
    /\ fsTask = [t \in FsTasks |-> IdleTask]
    /\ fsStored = {}

\* Calls of update_session_config; the request shape of an idle request.
Updates == 1 .. MaxUpdates
NoWriter == 0
NoShape == [proxy |-> "absent", host |-> FALSE, absUri |-> FALSE]
IdleUpdate == [pc |-> "idle", mode |-> NoneStr]
IdleProc == [pc |-> "idle", shape |-> NoShape, mode |-> NoneStr, error |-> NoneStr]

\* No request is in handle_http_request.
IdlePipe ==
    [pc |-> "idle", save |-> FALSE, reqLen |-> 0, upstream |-> 0, frames |-> <<>>,
     got |-> 0, eos |-> FALSE, stored |-> FALSE, status |-> 0, error |-> NoneStr,
     gone |-> FALSE, goneAt |-> NoneStr]

\* Tasks of the lock discipline; no task holds a lock.
LockTasks == 1 .. MaxLockTasks
NoTask == 0
IdleLockTask == [kind |-> NoneStr, pc |-> "idle", arm |-> NoneStr, error |-> NoneStr]

\* One registered session as create_session makes it, every lock free.
FreeLocks ==
    [present |-> TRUE, mode |-> "Record", regReaders |-> {}, regWriter |-> NoTask,
     cfgReaders |-> {}, cfgWriter |-> NoTask, lastAccess |-> NoTask, store |-> NoTask]

LocksIdle ==
    /\ ltask = [t \in LockTasks |-> IdleLockTask]
    /\ locks = FreeLocks

\* A session as create_session makes it: mode Record, config lock free.
ConfigIdle ==
    /\ config = [mode |-> "Record", writer |-> NoWriter]
    /\ upd = [u \in Updates |-> IdleUpdate]
    /\ proc = [r \in Reqs |-> IdleProc]
    /\ pipe = IdlePipe
    /\ LocksIdle

FunctionsIdle == CallsIdle /\ InitFs /\ ConfigIdle

Init ==
    /\ InitEngine
    /\ HeadersIdle
    /\ FunctionsIdle

\* ------------------------------------------------------------------ helpers

\* Faulty variant: a Session lives only as long as its registry entry.
Live_RegistryOnly(o, reg, rq) == \E id \in SessionIds : reg[id] = o

\* An Arc<Session> is alive while the registry or a request task refers to it.
Live(o, reg, rq) ==
    \/ \E id \in SessionIds : reg[id] = o
    \/ \E r \in Reqs : rq[r].handle = o

\* Dropping the last Arc frees the Session; the slot is fresh for the next one.
Sweep(ob, reg, rq) ==
    [o \in Objs |-> IF Live(o, reg, rq) THEN ob[o] ELSE FreshSession]

SessionIndex(id) == IF id = "s1" THEN 0 ELSE 1

Pool(id) == (SessionIndex(id) * PoolSize + 1) .. ((SessionIndex(id) + 1) * PoolSize)

\* Arc::new(Session {..}) in create_session: the first free object of the pool.
NewObj(id) ==
    CHOOSE o \in Pool(id) :
        /\ ~Live(o, registry, req)
        /\ \A p \in Pool(id) : ~Live(p, registry, req) => o <= p

\* sessions.contains_key(id) in session_exists.
SessionExistsIn(id) == registry[id] # NoObj

\* Faulty variant of the duplicate check: create_session inserts blindly.
CreateRejects_Never(id) == FALSE

\* sessions.contains_key(&id) in create_session: the duplicate check.
CreateRejects(id) == registry[id] # NoObj

ErrorResult(what) == [kind |-> "error", status |-> 500, body |-> what]

\* A request task ends with response res: its locals, its Arc<Session> and the
\* last_access guard are dropped, the response goes to the client.
Finish(r, res, ob, reg) ==
    LET rqs == [req EXCEPT ![r] = DoneReq]
        h == req[r].handle
        ob2 == IF h # NoObj /\ ob[h].holder = r
                 THEN [ob EXCEPT ![h].holder = NoReq] ELSE ob
    IN /\ req' = rqs
       /\ objs' = Sweep(ob2, reg, rqs)
       /\ out' = res

\* The request fails with an error string: handle_api_request answers 500.
Fail(r, what) == Finish(r, ErrorResult(what), objs, registry)

\* ------------------------------------------------------------ control plane

\* POST /__api_simulator/sessions -> SessionManager::create_session: under the
\* registry write lock, reject a duplicate id, else insert a new Session.
\* res is the result returned.
ControlCreate(id, res) ==
    /\ IF CreateRejects(id)
         THEN /\ res = "AlreadyExists"
              /\ UNCHANGED registry
         ELSE /\ res = "Ok"
              /\ registry' = [registry EXCEPT ![id] = NewObj(id)]
    /\ UNCHANGED <<objs, interactions, req, out, recorded, hvars, fvars>>

\* DELETE /__api_simulator/sessions/{id} -> SessionManager::delete_session:
\* under the registry write lock, remove the entry; the store is not touched.
\* res is the result returned.
ControlDelete(id, res) ==
    /\ IF registry[id] = NoObj
         THEN /\ res = "NotFound"
              /\ UNCHANGED <<registry, objs>>
         ELSE /\ res = "Ok"
              /\ registry' = [registry EXCEPT ![id] = NoObj]
              /\ objs' = Sweep(objs, registry', req)
    /\ UNCHANGED <<interactions, req, out, recorded, hvars, fvars>>

\* SessionManager::update_session_config: under the registry read lock and the
\* session's config write lock, update_fn sets the mode.
UpdateSessionConfig(id, m) ==
    /\ registry[id] # NoObj
    /\ objs' = [objs EXCEPT ![registry[id]].mode = m]
    /\ UNCHANGED <<registry, interactions, req, out, recorded, hvars, fvars>>

\* Storage::clear_interactions (memory backend): the session's list is removed.
ClearInteractions(id) ==
    /\ interactions' = [interactions EXCEPT ![id] = <<>>]
    /\ recorded' = {k \in recorded : k[1] # id}
    /\ UNCHANGED <<registry, objs, req, out, hvars, fvars>>

\* --------------------------------------------------------------- data plane

\* A data-plane request reaches handle_api_request; its session id, method and
\* path are the client's choice. The handler's first access to shared state is
\* session_exists(&session_id), under the registry read lock. Requests are
\* numbered in arrival order.
Arrive(r) ==
    /\ req[r].pc = "idle"
    /\ IF r = 1 THEN TRUE ELSE req[r - 1].pc # "idle"
    /\ \E sid \in SessionIds, k \in RequestKeys :
         req' = [req EXCEPT ![r].sid = sid, ![r].method = k[1], ![r].path = k[2],
                            ![r].pc = IF SessionExistsIn(sid) THEN "lookup" ELSE "create"]
    /\ UNCHANGED <<registry, objs, interactions, out, recorded, hvars, fvars>>

\* handle_api_request: create_session(session_id) after a negative check; an
\* error is answered with 500 "Failed to create session".
AutoCreate(r) ==
    /\ req[r].pc = "create"
    /\ IF CreateRejects(req[r].sid)
         THEN /\ Fail(r, "AlreadyExists")
              /\ UNCHANGED registry
         ELSE /\ registry' = [registry EXCEPT ![req[r].sid] = NewObj(req[r].sid)]
              /\ req' = [req EXCEPT ![r].pc = "lookup"]
              /\ UNCHANGED <<objs, out>>
    /\ UNCHANGED <<interactions, recorded, hvars, fvars>>

\* SessionManager::process_request: sessions.get(&session_id).cloned() under the
\* registry read lock; None is answered with 500 "Session not found".
Lookup(r) ==
    /\ req[r].pc = "lookup"
    /\ IF registry[req[r].sid] = NoObj
         THEN Fail(r, "NotFound")
         ELSE /\ req' = [req EXCEPT ![r].pc = "config", ![r].handle = registry[req[r].sid]]
              /\ UNCHANGED <<objs, out>>
    /\ UNCHANGED <<registry, interactions, recorded, hvars, fvars>>

\* Faulty variant of the dispatch: every served mode takes the recording arm.
DispatchArm_AlwaysForward(mode) ==
    IF mode \in {"Record", "Replay"} THEN "record" ELSE "none"

\* The arm of Session::process_request's match for a mode; the match has the
\* arms Record and Replay only.
DispatchArm(mode) ==
    IF mode = "Record" THEN "record"
    ELSE IF mode = "Replay" THEN "replay"
    ELSE "none"

\* SessionManager::process_request takes the session's last_access mutex (the
\* guard lives until session.process_request(req) has returned);
\* Session::process_request snapshots the config under its read lock and
\* dispatches on the mode.
Dispatch(r) ==
    /\ req[r].pc = "config"
    /\ objs[req[r].handle].holder = NoReq
    /\ LET mode == objs[req[r].handle].mode
           arm == DispatchArm(mode)
           ob == [objs EXCEPT ![req[r].handle].holder = r]
       IN IF arm = "none"
            THEN Finish(r, ErrorResult("NoArm"), ob, registry)
            ELSE /\ req' = [req EXCEPT ![r].pc = arm, ![r].mode = mode]
                 /\ objs' = ob
                 /\ UNCHANGED out
    /\ UNCHANGED <<registry, interactions, recorded, hvars, fvars>>

\* Session::extract_target_url: the X-Proxy-Target header; else, if the config
\* lock can be read at once (try_read), the Host header, else the URI's
\* authority. The config's own target is never consulted.
ExtractTargetUrl(proxy, cfgLocked, host, absUri) ==
    IF proxy # "absent" THEN "proxy"
    ELSE IF cfgLocked THEN NoneStr
    ELSE IF host THEN "host"
    ELSE IF absUri THEN "authority"
    ELSE NoneStr

\* Whether a concurrent update_session_config can hold the write lock of the
\* config of r's session: it reaches the session through the registry.
ConfigWritable(r) == registry[req[r].sid] = req[r].handle

\* The target-bearing parts of a request: its X-Proxy-Target header, whether
\* it has a Host header, whether its URI has an authority.
RequestShapes ==
    {[proxy |-> "valid", host |-> TRUE, absUri |-> FALSE],
     [proxy |-> "invalid", host |-> TRUE, absUri |-> FALSE],
     [proxy |-> "absent", host |-> TRUE, absUri |-> FALSE],
     [proxy |-> "absent", host |-> FALSE, absUri |-> TRUE],
     [proxy |-> "absent", host |-> FALSE, absUri |-> FALSE]}

\* Session::record_request and the first half of handle_http_request: resolve
\* the target, read the request body, build and parse the forward URL, copy the
\* headers, send. The request's shape and body are the client's; cfgLocked is
\* whether an update_session_config holds the config lock when try_read runs.
Forward(r) ==
    /\ req[r].pc = "record"
    /\ \E shape \in RequestShapes, bodyOk \in BOOLEAN :
       \E cfgLocked \in IF shape.proxy = "absent" /\ ConfigWritable(r)
                          THEN BOOLEAN ELSE {FALSE} :
         LET target == ExtractTargetUrl(shape.proxy, cfgLocked, shape.host, shape.absUri)
         IN IF target = NoneStr
              THEN Fail(r, "NoTarget")
            ELSE IF ~bodyOk
              THEN Fail(r, "BodyRead")
            ELSE IF target = "proxy" /\ shape.proxy = "invalid"
              THEN Fail(r, "BadUrl")
            ELSE /\ req' = [req EXCEPT ![r].pc = "sent"]
                 /\ UNCHANGED <<objs, out>>
    /\ UNCHANGED <<registry, interactions, recorded, hvars, fvars>>

\* The interaction handle_http_request stores: method and uri of the incoming
\* request, status and body of the upstream response.
MakeInteraction(r, resp) ==
    [method |-> req[r].method, path |-> req[r].path,
     status |-> resp.status, body |-> resp.body]

\* Faulty variant of the store: the session key is ignored.
StoreInteraction_Everywhere(store, sid, i) == [s \in SessionIds |-> Append(store[s], i)]

\* Faulty variant of the store: the interaction is put at the front.
StoreInteraction_Front(store, sid, i) == [store EXCEPT ![sid] = <<i>> \o @]

\* MemoryStorage::store_interaction: push at the end of the session's list.
StoreInteraction(store, sid, i) == [store EXCEPT ![sid] = Append(@, i)]

\* The response handle_http_request builds for the client from the upstream's.
ClientResponse(resp) == [kind |-> "upstream", status |-> resp.status, body |-> resp.body]

\* The second half of handle_http_request: the upstream answers or the send
\* fails; the body is drained; with save_interaction the pair is stored (the
\* store may fail); the response is built. Nothing is awaited between the last
\* frame and the return.
Complete(r) ==
    /\ req[r].pc = "sent"
    /\ \/ /\ \E e \in {"Upstream", "Drain"} : Fail(r, e)
          /\ UNCHANGED <<interactions, recorded>>
       \/ \E resp \in UpstreamResponses, storeOk \in BOOLEAN :
            LET save == req[r].mode = "Record"
            IN IF save /\ ~storeOk
                 THEN /\ Fail(r, "Store")
                      /\ UNCHANGED <<interactions, recorded>>
                 ELSE /\ Finish(r, ClientResponse(resp), objs, registry)
                      /\ IF save
                           THEN /\ interactions' = StoreInteraction(interactions, req[r].sid,
                                                                   MakeInteraction(r, resp))
                                /\ recorded' = recorded \cup
                                     {<<req[r].sid, req[r].method, req[r].path>>}
                           ELSE UNCHANGED <<interactions, recorded>>
    /\ UNCHANGED <<registry, hvars, fvars>>

\* Faulty variant of the comparison: the path is not compared.
InteractionMatches_MethodOnly(i, m, p) == i.method = m

\* RequestMatcher::match_request, the loop body: method and path are compared.
InteractionMatches(i, m, p) == i.method = m /\ i.path = p

\* RequestMatcher::match_request: the first stored interaction, in list order,
\* that matches; 0 when none does.
RECURSIVE MatchFrom(_, _, _, _)
MatchFrom(list, k, m, p) ==
    IF k > Len(list) THEN 0
    ELSE IF InteractionMatches(list[k], m, p) THEN k
    ELSE MatchFrom(list, k + 1, m, p)

\* Faulty variant of the search: the first interaction is skipped.
MatchRequest_SkipFirst(list, m, p) == MatchFrom(list, 2, m, p)

\* Faulty variant of the search: the last matching interaction is taken.
MatchRequest_Last(list, m, p) ==
    LET hits == {k \in 1 .. Len(list) : InteractionMatches(list[k], m, p)}
    IN IF hits = {} THEN 0 ELSE CHOOSE k \in hits : \A j \in hits : j <= k

\* RequestMatcher::match_request on the session's interactions.
MatchRequest(list, m, p) == MatchFrom(list, 1, m, p)

\* Session::replay_request: read the body (it may exceed the limit or break
\* off), have the matcher list the session's interactions (the store may fail
\* to read them) and search them, answer the stored response or 404.
ReplayRequest(r) ==
    /\ req[r].pc = "replay"
    /\ \E bodyOk \in BOOLEAN, listOk \in BOOLEAN :
         LET list == interactions[req[r].sid]
             k == MatchRequest(list, req[r].method, req[r].path)
         IN IF ~bodyOk
              THEN Fail(r, "BodyRead")
            ELSE IF ~listOk
              THEN Fail(r, "Match")
            ELSE IF k = 0
              THEN Finish(r, [kind |-> "miss", status |-> 404, body |-> MissBody],
                          objs, registry)
            ELSE Finish(r, [kind |-> "hit", status |-> list[k].status, body |-> list[k].body],
                        objs, registry)
    /\ UNCHANGED <<registry, interactions, recorded, hvars, fvars>>

\* ----------------------------------------------------------- specification

Results == {"Ok", "AlreadyExists", "NotFound"}

Next ==
    \/ \E id \in SessionIds, res \in Results : ControlCreate(id, res)
    \/ \E id \in SessionIds, res \in Results : ControlDelete(id, res)
    \/ \E id \in SessionIds, m \in Modes : UpdateSessionConfig(id, m)
    \/ \E id \in SessionIds : ClearInteractions(id)
    \/ \E r \in Reqs : Arrive(r)
    \/ \E r \in Reqs : AutoCreate(r)
    \/ \E r \in Reqs : Lookup(r)
    \/ \E r \in Reqs : Dispatch(r)
    \/ \E r \in Reqs : Forward(r)
    \/ \E r \in Reqs : Complete(r)
    \/ \E r \in Reqs : ReplayRequest(r)

Spec == Init /\ [][Next]_vars

\* ------------------------------------------------- header sanitisation

\* Header names are sequences of characters.
UpperCase == <<"A", "B", "C", "D", "E", "F", "G", "H", "I", "J", "K", "L", "M",
               "N", "O", "P", "Q", "R", "S", "T", "U", "V", "W", "X", "Y", "Z">>
LowerCase == <<"a", "b", "c", "d", "e", "f", "g", "h", "i", "j", "k", "l", "m",
               "n", "o", "p", "q", "r", "s", "t", "u", "v", "w", "x", "y", "z">>

ToLowerChar(c) ==
    IF \E i \in 1 .. Len(UpperCase) : UpperCase[i] = c
      THEN LowerCase[CHOOSE i \in 1 .. Len(UpperCase) : UpperCase[i] = c]
      ELSE c

\* str::to_lowercase.
ToLowercase(s) == [i \in 1 .. Len(s) |-> ToLowerChar(s[i])]

\* str::starts_with.
StartsWith(s, prefix) ==
    /\ Len(s) >= Len(prefix)
    /\ \A i \in 1 .. Len(prefix) : s[i] = prefix[i]

\* The literal "x-session" of the header loop.
SessionPrefix == <<"x", "-", "s", "e", "s", "s", "i", "o", "n">>

\* The names is_hop_by_hop_header lists.
HopByHopHeaders ==
    {<<"c", "o", "n", "n", "e", "c", "t", "i", "o", "n">>,
     <<"k", "e", "e", "p", "-", "a", "l", "i", "v", "e">>,
     <<"p", "r", "o", "x", "y", "-", "a", "u", "t", "h", "e", "n", "t", "i", "c", "a", "t", "e">>,
     <<"p", "r", "o", "x", "y", "-", "a", "u", "t", "h", "o", "r", "i", "z", "a", "t", "i", "o", "n">>,
     <<"t", "e">>,
     <<"t", "r", "a", "i", "l", "e", "r">>,
     <<"t", "r", "a", "n", "s", "f", "e", "r", "-", "e", "n", "c", "o", "d", "i", "n", "g">>,
     <<"u", "p", "g", "r", "a", "d", "e">>}

\* is_hop_by_hop_header.
IsHopByHopHeader(header) == ToLowercase(header) \in HopByHopHeaders

\* name.as_str() of an incoming header: a HeaderName holds the name the client
\* sent in lower case.
HeaderNameAsStr(wire) == ToLowercase(wire)

\* Faulty variant of the loop condition: session headers are not filtered.
ForwardsHeader_HopOnly(header_name) == ~IsHopByHopHeader(header_name)

\* The condition of the header loop of handle_http_request on header_name.
ForwardsHeader(header_name) ==
    ~StartsWith(header_name, SessionPrefix) /\ ~IsHopByHopHeader(header_name)

\* Header names as clients send them, and header values.
WireNames ==
    {<<"C", "o", "n", "n", "e", "c", "t", "i", "o", "n">>,
     <<"K", "E", "E", "P", "-", "A", "L", "I", "V", "E">>,
     <<"P", "r", "o", "x", "y", "-", "A", "u", "t", "h", "e", "n", "t", "i", "c", "a", "t", "e">>,
     <<"p", "r", "o", "x", "y", "-", "a", "u", "t", "h", "o", "r", "i", "z", "a", "t", "i", "o", "n">>,
     <<"T", "E">>,
     <<"T", "r", "a", "i", "l", "e", "r">>,
     <<"T", "r", "a", "n", "s", "f", "e", "r", "-", "E", "n", "c", "o", "d", "i", "n", "g">>,
     <<"u", "p", "g", "r", "a", "d", "e">>,
     <<"X", "-", "S", "e", "s", "s", "i", "o", "n", "-", "I", "d">>,
     <<"x", "-", "s", "e", "s", "s", "i", "o", "n">>,
     <<"X", "-", "S", "e", "s", "s", "i", "o">>,
     <<"T", "r", "a", "i", "l", "e", "r", "s">>,
     <<"A", "c", "c", "e", "p", "t">>,
     <<"H", "o", "s", "t">>}
HeaderValues == {"v1", "v2"}
WireHeaders == [name : WireNames, value : HeaderValues]

RECURSIVE HeaderLists(_)
HeaderLists(n) ==
    IF n = 0 THEN {<<>>}
    ELSE HeaderLists(n - 1) \cup
         {Append(l, h) : l \in {x \in HeaderLists(n - 1) : Len(x) = n - 1}, h \in WireHeaders}

\* parts.headers of an incoming request, before the loop.
InitHeaders ==
    /\ InitEngine
    /\ hIn \in HeaderLists(MaxHeaders)
    /\ hPos = 0
    /\ hOut = <<>>
    /\ FunctionsIdle

\* One iteration of `for (name, value) in &parts.headers`: the header goes on
\* the request builder, under its HeaderName, when the condition holds.
CopyHeader ==
    /\ hPos < Len(hIn)
    /\ hPos' = hPos + 1
    /\ LET name == HeaderNameAsStr(hIn[hPos + 1].name)
       IN hOut' = IF ForwardsHeader(name)
                    THEN Append(hOut, [name |-> name, value |-> hIn[hPos + 1].value])
                    ELSE hOut
    /\ UNCHANGED <<registry, objs, interactions, req, out, recorded, hIn, fvars>>

NextHeaders == CopyHeader

SpecHeaders == InitHeaders /\ [][NextHeaders]_vars

\* ------------------------------------------------- response header loop

\* Header names of upstream responses (a HeaderName is in lower case).
ResponseNames ==
    {<<"c", "o", "n", "n", "e", "c", "t", "i", "o", "n">>,
     <<"s", "e", "t", "-", "c", "o", "o", "k", "i", "e">>,
     <<"c", "o", "n", "t", "e", "n", "t", "-", "t", "y", "p", "e">>,
     <<"k", "e", "e", "p", "-", "a", "l", "i", "v", "e">>}

RECURSIVE ValueLists(_)
ValueLists(n) ==
    IF n = 0 THEN {}
    ELSE ValueLists(n - 1) \cup {<<v>> : v \in HeaderValues} \cup
         {Append(l, v) : l \in ValueLists(n - 1), v \in HeaderValues}

\* resp_parts.headers: a HeaderMap, each name with the list of its values.
RECURSIVE HeaderMaps(_)
HeaderMaps(n) ==
    IF n = 0 THEN {<<>>}
    ELSE HeaderMaps(n - 1) \cup
         {Append(m, [name |-> nm, values |-> vs]) :
            m \in {x \in HeaderMaps(n - 1) : Len(x) = n - 1},
            nm \in ResponseNames, vs \in ValueLists(MaxValues)}

\* No name occurs twice in a HeaderMap.
DistinctNames(m) == \A i, j \in 1 .. Len(m) : m[i].name = m[j].name => i = j

\* The items HeaderMap's consuming iterator yields for one name: the first
\* value comes with Some(name), each further value with None.
EntryItems(e) ==
    [i \in 1 .. Len(e.values) |->
        [some |-> i = 1, name |-> IF i = 1 THEN e.name ELSE <<>>, value |-> e.values[i]]]

\* `for (name, value) in headers`: HeaderMap::into_iter.
RECURSIVE IntoIter(_)
IntoIter(m) ==
    IF m = <<>> THEN <<>>
    ELSE IntoIter(SubSeq(m, 1, Len(m) - 1)) \o EntryItems(m[Len(m)])

\* The loop that adds the upstream's headers to the response builder: an item
\* is added when its name is Some and not a hop-by-hop header.
RECURSIVE ResponseHeaders(_)
ResponseHeaders(items) ==
    IF items = <<>> THEN <<>>
    ELSE LET it == items[Len(items)]
             front == ResponseHeaders(SubSeq(items, 1, Len(items) - 1))
         IN IF it.some /\ ~IsHopByHopHeader(it.name)
              THEN Append(front, [name |-> it.name, value |-> it.value])
              ELSE front

\* The response handle_http_request returns for an upstream response.
BuildResponse(status, headers, body) ==
    [fn |-> "build_response", status |-> status,
     headers |-> ResponseHeaders(IntoIter(headers)), body |-> body]

\* An upstream response was received and drained.
InitResponse ==
    /\ InitEngine
    /\ HeadersIdle
    /\ \E resp \in UpstreamResponses, m \in {x \in HeaderMaps(MaxHeaders) : DistinctNames(x)} :
         call = [fn |-> "build_response", status |-> resp.status, headers |-> m,
                 body |-> resp.body]
    /\ ret = NoRet
    /\ InitFs
    /\ ConfigIdle

Respond ==
    /\ call.fn = "build_response"
    /\ ret = NoRet
    /\ ret' = BuildResponse(call.status, call.headers, call.body)
    /\ UNCHANGED <<registry, objs, interactions, req, out, recorded, hvars, call, fsvars, cvars>>

NextResponse == Respond

SpecResponse == InitResponse /\ [][NextResponse]_vars

\* ------------------------------------------------------ filesystem store

\* Session ids, as the path components they name: "s1", "s2", "s1/t" and
\* "s1/.".
FsSessionIds == {<<"s1">>, <<"s2">>, <<"s1", "t">>, <<"s1", ".">>}

\* Path p is q or an ancestor of q.
IsPrefix(p, q) == Len(p) <= Len(q) /\ SubSeq(q, 1, Len(p)) = p

\* A path component other than ".".
NamesEntry(c) == c # "."

\* FileSystemStorage::get_session_path: base_path with the session id pushed.
\* The path is given as the directory it names: a "." component names the
\* directory it stands in.
GetSessionPath(id) == SelectSeq(id, NamesEntry)

\* fs::create_dir_all: the directory and its missing ancestors.
CreateDirAll(dirs, p) == dirs \cup {SubSeq(p, 1, n) : n \in 1 .. Len(p)}

\* fs::remove_dir_all on the directories: p and everything below it go.
RemoveDirs(dirs, p) == {d \in dirs : ~IsPrefix(p, d)}

\* fs::remove_dir_all on the files.
RemoveFiles(files, p) == {f \in files : ~IsPrefix(p, f.dir)}

\* The *.json files read_dir yields for a directory.
FilesIn(files, p) == {f \in files : f.dir = p}

\* FileSystemStorage::get_interactions: empty when the directory is missing;
\* else every file is read and deserialized, and a file that does not hold a
\* whole interaction fails the call.
GetInteractions(dirs, files, id) ==
    LET p == GetSessionPath(id)
    IN IF p \notin dirs THEN [res |-> "ok", items |-> {}]
       ELSE IF \E f \in FilesIn(files, p) : ~f.complete
         THEN [res |-> "error", items |-> {}]
       ELSE [res |-> "ok", items |-> {f.id : f \in FilesIn(files, p)}]

\* A storage call ends.
FsReturn(t, res, items) ==
    fsTask' = [fsTask EXCEPT ![t].pc = "done", ![t].res = res, ![t].items = items]

\* A storage call starts; calls are numbered in the order they start.
FsStarts(t) ==
    /\ fsTask[t].pc = "idle"
    /\ IF t = 1 THEN TRUE ELSE fsTask[t - 1].pc # "idle"

\* store_interaction, up to the directory: the conversions, the interaction
\* with its fresh id, create_dir_all when the directory is missing.
FsStoreBegin(t, id) ==
    /\ FsStarts(t)
    /\ \E ok \in BOOLEAN :
         IF ok
           THEN /\ fsDirs' = CreateDirAll(fsDirs, GetSessionPath(id))
                /\ fsTask' = [fsTask EXCEPT ![t].pc = "create", ![t].op = "store",
                                            ![t].sid = id]
           ELSE /\ fsTask' = [fsTask EXCEPT ![t].pc = "done", ![t].op = "store",
                                            ![t].sid = id, ![t].res = "error"]
                /\ UNCHANGED <<fsDirs, evars, hvars, call, ret, cvars>>
    /\ UNCHANGED <<fsFiles, fsStored, evars, hvars, call, ret, cvars>>

\* store_interaction: File::create(interaction_path) leaves an empty file.
FsStoreCreate(t) ==
    /\ fsTask[t].pc = "create"
    /\ \E ok \in BOOLEAN :
         IF ok /\ GetSessionPath(fsTask[t].sid) \in fsDirs
           THEN /\ fsFiles' = fsFiles \cup
                     {[dir |-> GetSessionPath(fsTask[t].sid), id |-> t, complete |-> FALSE]}
                /\ fsTask' = [fsTask EXCEPT ![t].pc = "write"]
           ELSE /\ FsReturn(t, "error", {})
                /\ UNCHANGED fsFiles
    /\ UNCHANGED <<fsDirs, fsStored, evars, hvars, call, ret, cvars>>

\* store_interaction: file.write_all(json) through the open handle, then Ok.
\* A failed write leaves the file as it is.
FsStoreWrite(t) ==
    /\ fsTask[t].pc = "write"
    /\ \E ok \in BOOLEAN :
         IF ok
           THEN /\ fsFiles' = {IF f.id = t THEN [f EXCEPT !.complete = TRUE] ELSE f :
                                 f \in fsFiles}
                /\ FsReturn(t, "ok", {})
                /\ fsStored' = fsStored \cup {t}
           ELSE /\ FsReturn(t, "error", {})
                /\ UNCHANGED <<fsFiles, fsStored, evars, hvars, call, ret, cvars>>
    /\ UNCHANGED <<fsDirs, evars, hvars, call, ret, cvars>>

\* get_interactions.
FsList(t, id) ==
    /\ FsStarts(t)
    /\ LET got == GetInteractions(fsDirs, fsFiles, id)
       IN fsTask' = [fsTask EXCEPT ![t].pc = "done", ![t].op = "list", ![t].sid = id,
                                   ![t].res = got.res, ![t].items = got.items]
    /\ UNCHANGED <<fsDirs, fsFiles, fsStored, evars, hvars, call, ret, cvars>>

\* clear_interactions: Ok when the directory is missing, else remove_dir_all.
FsClear(t, id) ==
    /\ FsStarts(t)
    /\ \E ok \in BOOLEAN :
         LET p == GetSessionPath(id)
             res == IF p \notin fsDirs \/ ok THEN "ok" ELSE "error"
         IN /\ fsTask' = [fsTask EXCEPT ![t].pc = "done", ![t].op = "clear", ![t].sid = id,
                                        ![t].res = res]
            /\ IF p \in fsDirs /\ ok
                 THEN /\ fsDirs' = RemoveDirs(fsDirs, p)
                      /\ fsFiles' = RemoveFiles(fsFiles, p)
                 ELSE UNCHANGED <<fsDirs, fsFiles>>
            /\ fsStored' = IF res = "ok" THEN {x \in fsStored : fsTask[x].sid # id}
                           ELSE fsStored
    /\ UNCHANGED <<evars, hvars, call, ret, cvars>>

NextFs ==
    \/ \E t \in FsTasks, id \in FsSessionIds : FsStoreBegin(t, id)
    \/ \E t \in FsTasks : FsStoreCreate(t)
    \/ \E t \in FsTasks : FsStoreWrite(t)
    \/ \E t \in FsTasks, id \in FsSessionIds : FsList(t, id)
    \/ \E t \in FsTasks, id \in FsSessionIds : FsClear(t, id)

InitFsStore == InitEngine /\ HeadersIdle /\ CallsIdle /\ InitFs /\ ConfigIdle

SpecFs == InitFsStore /\ [][NextFs]_vars

\* -------------------------------------------------- session id resolution

\* Header and query values that are strings.
IdTexts == {"s1", "s2", "S1", "a/b", "default", ""}

\* The X-Session-Id header of a request: absent, a value that is a string, or
\* a value HeaderValue::to_str rejects (bytes outside visible ASCII).
SessionHeaders ==
    {[kind |-> "absent", value |-> NoneStr], [kind |-> "opaque", value |-> "<bytes>"]}
    \cup [kind : {"text"}, value : IdTexts]

\* The query string of a request: none, one serde_qs cannot parse, one without
\* a session parameter, or one with it.
QueryStrings ==
    {[kind |-> "none", session |-> NoneStr], [kind |-> "unparsable", session |-> NoneStr],
     [kind |-> "other", session |-> NoneStr]}
    \cup [kind : {"session"}, session : IdTexts]

\* handle_api_request: the SessionQuery parsed from the URI; a missing or
\* unparsable query gives session: None.
ParseQuery(q) ==
    IF q.kind = "session" THEN [some |-> TRUE, session |-> q.session]
    ELSE [some |-> FALSE, session |-> NoneStr]

\* Faulty variant of the resolution: the query parameter is consulted first.
ExtractSessionId_QueryFirst(header, query) ==
    IF query.some THEN query.session
    ELSE IF header.kind = "text" THEN header.value
    ELSE "default"

\* extract_session_id.
ExtractSessionId(header, query) ==
    IF header.kind = "text" THEN header.value
    ELSE IF query.some THEN query.session
    ELSE "default"

InitSessionId ==
    /\ InitEngine
    /\ HeadersIdle
    /\ InitFs
    /\ ConfigIdle
    /\ \E h \in SessionHeaders, q \in QueryStrings :
         call = [fn |-> "extract_session_id", header |-> h, query |-> q]
    /\ ret = NoRet

ResolveSessionId ==
    /\ call.fn = "extract_session_id"
    /\ ret = NoRet
    /\ ret' = [fn |-> "extract_session_id",
               id |-> ExtractSessionId(call.header, ParseQuery(call.query))]
    /\ UNCHANGED <<evars, hvars, call, fsvars, cvars>>

NextSessionId == ResolveSessionId

SpecSessionId == InitSessionId /\ [][NextSessionId]_vars

\* ------------------------------------------------------ matcher predicate

\* Methods, URI paths and URI queries of requests; paths and queries are
\* sequences of characters, a path holds no "?".
MatchMethods == {"GET", "POST", "get"}
UriPaths == {<<"/", "a">>, <<"/", "b">>, <<"/", "a", "/">>}
UriQueries ==
    {[some |-> FALSE, text |-> <<>>], [some |-> TRUE, text |-> <<>>],
     [some |-> TRUE, text |-> <<"x">>], [some |-> TRUE, text |-> <<"y", "?", "z">>]}
Uris == [path : UriPaths, query : UriQueries]
Bodies == {"b1", "b2"}

\* Uri::to_string (request_to_stored): the path, then "?" and the query if any.
UriToString(u) == IF u.query.some THEN u.path \o <<"?">> \o u.query.text ELSE u.path

\* Position of the first "?" of a string, 0 if none.
RECURSIVE QuestionMark(_, _)
QuestionMark(str, k) ==
    IF k > Len(str) THEN 0
    ELSE IF str[k] = "?" THEN k
    ELSE QuestionMark(str, k + 1)

\* The Uri parsed from a string (stored_to_request: builder.uri(stored.uri)).
ParseUri(str) ==
    LET q == QuestionMark(str, 1)
    IN IF q = 0 THEN [path |-> str, query |-> [some |-> FALSE, text |-> <<>>]]
       ELSE [path |-> SubSeq(str, 1, q - 1),
             query |-> [some |-> TRUE, text |-> SubSeq(str, q + 1, Len(str))]]

\* Header names and values of the codec's inputs. A value is a sequence of
\* bytes: "v", "e" with an acute accent in UTF-8, and a byte that is no UTF-8.
CodecNames == {"accept", "x-tag"}
CodecValues == {<<118>>, <<195, 169>>, <<255>>}
CodecValueLists == UNION {[1 .. n -> CodecValues] : n \in 1 .. MaxValues}

\* HeaderMap: entries in insertion order, each a name and its values in order.
CodecHeaderMaps ==
    {m \in UNION {[1 .. k -> [name : CodecNames, values : CodecValueLists]] :
                    k \in 0 .. MaxHeaders} :
       \A i, j \in 1 .. Len(m) : m[i].name = m[j].name => i = j}

\* HeaderMap::iter: every value of every entry, with its name.
RECURSIVE IterHeaders(_)
IterHeaders(m) ==
    IF m = <<>> THEN <<>>
    ELSE [i \in 1 .. Len(m[1].values) |-> [name |-> m[1].name, value |-> m[1].values[i]]]
         \o IterHeaders(Tail(m))

\* HeaderValue::to_str succeeds on visible ASCII and tab only.
VisibleAscii(v) == \A i \in 1 .. Len(v) : v[i] = 9 \/ (v[i] >= 32 /\ v[i] < 127)

\* HeaderValue::try_from(&String), as builder.header applies it.
ValidHeaderValue(v) == \A i \in 1 .. Len(v) : v[i] = 9 \/ (v[i] >= 32 /\ v[i] # 127)

\* headers.entry(name).or_insert_with(Vec::new).push(value).
PushValue(map, name, value) ==
    [n \in DOMAIN map \cup {name} |->
       IF n # name THEN map[n]
       ELSE IF name \in DOMAIN map THEN Append(map[name], value)
       ELSE <<value>>]

\* The header loop of request_to_stored and response_to_stored: a value that
\* to_str rejects ends the conversion with an error.
RECURSIVE HeadersToStored(_, _, _)
HeadersToStored(items, k, map) ==
    IF k > Len(items) THEN [ok |-> TRUE, headers |-> map]
    ELSE IF ~VisibleAscii(items[k].value) THEN [ok |-> FALSE, headers |-> <<>>]
    ELSE HeadersToStored(items, k + 1, PushValue(map, items[k].name, items[k].value))

\* request_to_stored.
RequestToStored(rq) ==
    LET h == HeadersToStored(IterHeaders(rq.headers), 1, <<>>)
    IN [ok |-> h.ok,
        stored |-> [method |-> rq.method, uri |-> UriToString(rq.uri),
                    headers |-> h.headers, body |-> rq.body]]

\* response_to_stored.
ResponseToStored(rs) ==
    LET h == HeadersToStored(IterHeaders(rs.headers), 1, <<>>)
    IN [ok |-> h.ok,
        stored |-> [status |-> rs.status, headers |-> h.headers, body |-> rs.body]]

\* The orders in which a HashMap's names may be iterated.
IterationOrders(map) ==
    {o \in [1 .. Cardinality(DOMAIN map) -> DOMAIN map] :
       \A i, j \in DOMAIN o : o[i] = o[j] => i = j}

\* The header loop of stored_to_request and stored_to_response: names in the
\* map's order, each name's values in list order, appended by builder.header.
StoredHeadersToLive(map, order) ==
    [ok |-> \A n \in DOMAIN map : \A i \in 1 .. Len(map[n]) : ValidHeaderValue(map[n][i]),
     headers |-> [i \in 1 .. Len(order) |-> [name |-> order[i], values |-> map[order[i]]]]]

\* Faulty variant of the path: the whole URI is compared.
UriPath_WholeUri(u) == UriToString(u)

\* Uri::path.
UriPath(u) == u.path

\* The request handle_http_request stores for an incoming one (method, uri and
\* body, no headers), in stored form (request_to_stored).
StoredRequestOf(r) ==
    RequestToStored([method |-> r.method, uri |-> r.uri, headers |-> <<>>,
                     body |-> r.body]).stored

\* stored_to_request, the map's names iterated in the given order.
StoredToRequest(sr, order) ==
    LET h == StoredHeadersToLive(sr.headers, order)
    IN [ok |-> h.ok,
        live |-> [method |-> sr.method, uri |-> ParseUri(sr.uri),
                  headers |-> h.headers, body |-> sr.body]]

\* stored_to_response.
StoredToResponse(sr, order) ==
    LET h == StoredHeadersToLive(sr.headers, order)
    IN [ok |-> h.ok,
        live |-> [status |-> sr.status, headers |-> h.headers, body |-> sr.body]]

\* The request replay_request hands to the matcher: method, uri and body of
\* the incoming request, no headers.
ReqWithBytes(r) == [method |-> r.method, uri |-> r.uri, body |-> r.body]

\* One iteration of the matcher's loop: the stored request, as listed by the
\* store, against the request to replay.
MatchesStored(sr, r) ==
    LET stored_req == StoredToRequest(sr, <<>>).live
        rq == ReqWithBytes(r)
    IN InteractionMatches([method |-> stored_req.method, path |-> UriPath(stored_req.uri)],
                          rq.method, UriPath(rq.uri))

\* A recorded request and a request to replay.
InitMatcher ==
    /\ InitEngine
    /\ HeadersIdle
    /\ InitFs
    /\ ConfigIdle
    /\ \E rm \in MatchMethods, ru \in Uris, rb \in Bodies,
          m \in MatchMethods, u \in Uris, h \in HeaderValues, b \in Bodies :
         call = [fn |-> "match",
                 recorded |-> [method |-> rm, uri |-> ru, body |-> rb],
                 incoming |-> [method |-> m, uri |-> u, headers |-> h, body |-> b]]
    /\ ret = NoRet

Match ==
    /\ call.fn = "match"
    /\ ret = NoRet
    /\ ret' = [fn |-> "match",
               matched |-> MatchesStored(StoredRequestOf(call.recorded), call.incoming)]
    /\ UNCHANGED <<evars, hvars, call, fsvars, cvars>>

NextMatcher == Match

SpecMatcher == InitMatcher /\ [][NextMatcher]_vars

\* ------------------------------------------------------ session config lock

\* SessionManager::update_session_config, first half: the session's
\* config.write() is granted once no other writer holds the lock.
UpdateLock(u, m) ==
    /\ upd[u].pc = "idle"
    /\ config.writer = NoWriter
    /\ config' = [config EXCEPT !.writer = u]
    /\ upd' = [upd EXCEPT ![u] = [pc |-> "locked", mode |-> m]]
    /\ UNCHANGED <<proc, evars, hvars, call, ret, fsvars, pvars>>

\* SessionManager::update_session_config, second half: update_fn sets the
\* mode, the guard is dropped and the call returns.
UpdateWrite(u) ==
    /\ upd[u].pc = "locked"
    /\ config' = [mode |-> upd[u].mode, writer |-> NoWriter]
    /\ upd' = [upd EXCEPT ![u].pc = "returned"]
    /\ UNCHANGED <<proc, evars, hvars, call, ret, fsvars, pvars>>

\* A request for the session enters Session::process_request; its
\* target-bearing parts are the client's.
ProcStart(r) ==
    /\ proc[r].pc = "idle"
    /\ \E shape \in RequestShapes :
         proc' = [proc EXCEPT ![r].pc = "config", ![r].shape = shape]
    /\ UNCHANGED <<config, upd, evars, hvars, call, ret, fsvars, pvars>>

\* Session::process_request: self.config.read().await.clone() is granted while
\* no writer holds the lock; the match dispatches on the snapshot's mode.
ProcSnapshot(r) ==
    /\ proc[r].pc = "config"
    /\ config.writer = NoWriter
    /\ LET arm == DispatchArm(config.mode)
       IN proc' = [proc EXCEPT ![r].mode = config.mode,
                               ![r].pc = IF arm = "none" THEN "failed" ELSE arm,
                               ![r].error = IF arm = "none" THEN "NoArm" ELSE NoneStr]
    /\ UNCHANGED <<config, upd, evars, hvars, call, ret, fsvars, pvars>>

\* Session::record_request: extract_target_url, whose config.try_read() fails
\* while a writer holds the lock; None is answered with an error.
ProcResolve(r) ==
    /\ proc[r].pc = "record"
    /\ LET shape == proc[r].shape
           target == ExtractTargetUrl(shape.proxy, config.writer # NoWriter,
                                      shape.host, shape.absUri)
       IN proc' = [proc EXCEPT ![r].pc = IF target = NoneStr THEN "failed" ELSE "forward",
                               ![r].error = IF target = NoneStr THEN "NoTarget" ELSE NoneStr]
    /\ UNCHANGED <<config, upd, evars, hvars, call, ret, fsvars, pvars>>

\* handle_http_request with save_interaction: the request is forwarded and the
\* interaction stored, or forwarding fails.
ProcForward(r) ==
    /\ proc[r].pc = "forward"
    /\ \E ok \in BOOLEAN :
         proc' = [proc EXCEPT ![r].pc = IF ok THEN "stored" ELSE "failed",
                              ![r].error = IF ok THEN NoneStr ELSE "Upstream"]
    /\ UNCHANGED <<config, upd, evars, hvars, call, ret, fsvars, pvars>>

\* Session::replay_request: answered from the store.
ProcReplay(r) ==
    /\ proc[r].pc = "replay"
    /\ proc' = [proc EXCEPT ![r].pc = "replayed"]
    /\ UNCHANGED <<config, upd, evars, hvars, call, ret, fsvars, pvars>>

NextConfig ==
    \/ \E u \in Updates, m \in Modes : UpdateLock(u, m)
    \/ \E u \in Updates : UpdateWrite(u)
    \/ \E r \in Reqs : ProcStart(r)
    \/ \E r \in Reqs : ProcSnapshot(r)
    \/ \E r \in Reqs : ProcResolve(r)
    \/ \E r \in Reqs : ProcForward(r)
    \/ \E r \in Reqs : ProcReplay(r)

InitConfig == InitEngine /\ HeadersIdle /\ CallsIdle /\ InitFs /\ ConfigIdle

SpecConfig == InitConfig /\ [][NextConfig]_vars

\* ---------------------------------------------------- target resolution

\* proxy.default_target of the application config: empty or a URL.
DefaultTargets == {"", "http://default"}

\* What an update_fn of update_session_config did to config.target_url:
\* nothing, or set it to Some of an empty string or of a URL.
TargetUpdates == {"unset", "", "http://configured"}

\* SessionManager::create_session: default_target is read from the application
\* config, but the SessionConfig is built from the mode alone; target_url
\* keeps its default, None.
CreateSessionTarget(default_target) == NoneStr

\* config.target_url of a session created under default_target and updated
\* or not.
SessionTargetUrl(default_target, updated) ==
    IF updated = "unset" THEN CreateSessionTarget(default_target) ELSE updated

\* A request's target-bearing parts, a session's configuration.
InitTarget ==
    /\ InitEngine
    /\ HeadersIdle
    /\ InitFs
    /\ ConfigIdle
    /\ \E proxy \in ProxyTargetHeader, host \in BOOLEAN, absUri \in BOOLEAN,
          d \in DefaultTargets, u \in TargetUpdates, cfgLocked \in BOOLEAN :
         call = [fn |-> "extract_target_url", proxy |-> proxy, host |-> host,
                 absUri |-> absUri, default_target |-> d, updated |-> u,
                 target_url |-> SessionTargetUrl(d, u), cfgLocked |-> cfgLocked]
    /\ ret = NoRet

\* Session::extract_target_url on the request, in the session.
ResolveTarget ==
    /\ call.fn = "extract_target_url"
    /\ ret = NoRet
    /\ ret' = [fn |-> "extract_target_url",
               target |-> ExtractTargetUrl(call.proxy, call.cfgLocked, call.host, call.absUri)]
    /\ UNCHANGED <<evars, hvars, call, fsvars, cvars>>

NextTarget == ResolveTarget

SpecTarget == InitTarget /\ [][NextTarget]_vars

\* ------------------------------------------------------------------ codec

\* Status codes of the codec's responses.
CodecStatuses == {200, 404}

\* The messages converted: requests and responses.
LiveRequests ==
    [kind : {"request"}, method : MatchMethods, uri : Uris,
     headers : CodecHeaderMaps, body : Bodies]
LiveResponses ==
    [kind : {"response"}, status : CodecStatuses, headers : CodecHeaderMaps, body : Bodies]

InitCodec ==
    /\ InitEngine
    /\ HeadersIdle
    /\ InitFs
    /\ ConfigIdle
    /\ \E live \in LiveRequests \cup LiveResponses :
         call = [fn |-> "round_trip", live |-> live]
    /\ ret = NoRet

\* What a conversion pair returns.
CodecResult(back) ==
    IF back.ok THEN [fn |-> "round_trip", res |-> "ok", live |-> back.live]
    ELSE [fn |-> "round_trip", res |-> "err"]

\* request_to_stored then stored_to_request, or response_to_stored then
\* stored_to_response; the maps are iterated in some order.
RoundTrip ==
    /\ call.fn = "round_trip"
    /\ ret = NoRet
    /\ LET s == IF call.live.kind = "request" THEN RequestToStored(call.live)
                ELSE ResponseToStored(call.live)
       IN IF ~s.ok
            THEN ret' = [fn |-> "round_trip", res |-> "err"]
            ELSE \E order \in IterationOrders(s.stored.headers) :
                   ret' = CodecResult(IF call.live.kind = "request"
                                        THEN StoredToRequest(s.stored, order)
                                        ELSE StoredToResponse(s.stored, order))
    /\ UNCHANGED <<evars, hvars, call, fsvars, cvars>>

NextCodec == RoundTrip

SpecCodec == InitCodec /\ [][NextCodec]_vars

\* --------------------------------------------------------------- registry

\* Session ids of the registry's calls, the modes of registered sessions, and
\* the registry (SessionManager.sessions): a map from ids to sessions.
RegistryIds == {"s1", "s2", ""}
RegistryModes == {"Record", "Replay"}
RegistryMaps == UNION {[S -> RegistryModes] : S \in SUBSET RegistryIds}

\* SessionManager::create_session: a duplicate id is rejected, else a session
\* in mode Record is inserted.
CreateSession(sessions, id) ==
    IF id \in DOMAIN sessions
      THEN [res |-> "AlreadyExists", sessions |-> sessions]
      ELSE [res |-> "Ok",
            sessions |-> [s \in DOMAIN sessions \cup {id} |->
                            IF s = id THEN "Record" ELSE sessions[s]]]

\* Handler create_session: an empty session_id is answered 400, a created
\* session 201, an error of the manager 500.
CreateSessionHandler(sessions, id) ==
    IF id = "" THEN [status |-> 400, sessions |-> sessions]
    ELSE LET c == CreateSession(sessions, id)
         IN [status |-> IF c.res = "Ok" THEN 201 ELSE 500, sessions |-> c.sessions]

\* Faulty variant of the removal: the whole map is emptied.
DeleteSession_Clear(sessions, id) ==
    IF id \in DOMAIN sessions
      THEN [res |-> "Ok", sessions |-> <<>>]
      ELSE [res |-> "NotFound", sessions |-> sessions]

\* SessionManager::delete_session: sessions.remove(id); None is an error.
DeleteSession(sessions, id) ==
    IF id \in DOMAIN sessions
      THEN [res |-> "Ok", sessions |-> [s \in DOMAIN sessions \ {id} |-> sessions[s]]]
      ELSE [res |-> "NotFound", sessions |-> sessions]

\* Handler delete_session: 204 on Ok, 500 on an error.
DeleteSessionHandler(sessions, id) ==
    LET d == DeleteSession(sessions, id)
    IN [status |-> IF d.res = "Ok" THEN 204 ELSE 500, sessions |-> d.sessions]

\* Faulty variant of the listing: nothing is listed.
ListSessions_Nothing(sessions, locked) == {}

\* SessionManager::list_sessions: the keys if try_read gets the registry lock
\* at once, an empty list if a writer holds it.
ListSessions(sessions, locked) == IF locked THEN {} ELSE DOMAIN sessions

\* SessionManager::get_session_count: the map's size, 0 if try_read fails.
GetSessionCount(sessions, locked) == IF locked THEN 0 ELSE Cardinality(DOMAIN sessions)

\* handle_api_request up to process_request: the session id is extracted and
\* a session that does not exist is created.
EnsureSession(sessions, header, query) ==
    LET session_id == ExtractSessionId(header, ParseQuery(query))
    IN IF session_id \in DOMAIN sessions
         THEN [session_id |-> session_id, sessions |-> sessions]
         ELSE [session_id |-> session_id,
               sessions |-> CreateSession(sessions, session_id).sessions]

\* The calls made on a registry: its state, the call's arguments, and for the
\* two snapshot reads whether a writer holds the registry lock.
RegistryCalls ==
    [fn : {"create_session", "delete_session"}, sessions : RegistryMaps, id : RegistryIds]
    \cup [fn : {"list_sessions", "get_session_count"}, sessions : RegistryMaps,
          locked : BOOLEAN]
    \cup [fn : {"handle_api_request"}, sessions : RegistryMaps,
          header : SessionHeaders, query : QueryStrings]

InitRegistry ==
    /\ InitEngine
    /\ HeadersIdle
    /\ InitFs
    /\ ConfigIdle
    /\ call \in RegistryCalls
    /\ ret = NoRet

RegistryCreate ==
    /\ call.fn = "create_session"
    /\ ret = NoRet
    /\ LET c == CreateSessionHandler(call.sessions, call.id)
       IN ret' = [fn |-> "create_session", status |-> c.status, sessions |-> c.sessions]
    /\ UNCHANGED <<evars, hvars, call, fsvars, cvars>>

RegistryDelete ==
    /\ call.fn = "delete_session"
    /\ ret = NoRet
    /\ LET d == DeleteSessionHandler(call.sessions, call.id)
       IN ret' = [fn |-> "delete_session", status |-> d.status, sessions |-> d.sessions]
    /\ UNCHANGED <<evars, hvars, call, fsvars, cvars>>

RegistryList ==
    /\ call.fn = "list_sessions"
    /\ ret = NoRet
    /\ ret' = [fn |-> "list_sessions", ids |-> ListSessions(call.sessions, call.locked)]
    /\ UNCHANGED <<evars, hvars, call, fsvars, cvars>>

RegistryCount ==
    /\ call.fn = "get_session_count"
    /\ ret = NoRet
    /\ ret' = [fn |-> "get_session_count",
               count |-> GetSessionCount(call.sessions, call.locked)]
    /\ UNCHANGED <<evars, hvars, call, fsvars, cvars>>

RegistryEnsure ==
    /\ call.fn = "handle_api_request"
    /\ ret = NoRet
    /\ LET e == EnsureSession(call.sessions, call.header, call.query)
       IN ret' = [fn |-> "handle_api_request", session_id |-> e.session_id,
                  sessions |-> e.sessions]
    /\ UNCHANGED <<evars, hvars, call, fsvars, cvars>>

NextRegistry ==
    \/ RegistryCreate
    \/ RegistryDelete
    \/ RegistryList
    \/ RegistryCount
    \/ RegistryEnsure

SpecRegistry == InitRegistry /\ [][NextRegistry]_vars

\* ---------------------------------------------------- forwarding pipeline

\* The limit to_bytes is given for the request body, in bytes.
BodyLimit == 1024 * 1024 * 10

\* Lengths of request bodies; sizes of the data frames of an upstream body and
\* the bodies an upstream may send; upstream status codes.
RequestLengths == {0, BodyLimit, BodyLimit + 1}
FrameSizes == {1, BodyLimit}
ResponseFrames == UNION {[1 .. n -> FrameSizes] : n \in 0 .. MaxFrames}
UpstreamStatuses == {200, 404}

\* Faulty variant of the suspension points: the store is awaited too.
AwaitPoints_StoreAwaited == {"body", "send", "drain", "store"}

\* The positions at which handle_http_request awaits: to_bytes, the client's
\* request, and resp_body.frame(). The task can be dropped only there.
AwaitPoints == {"body", "send", "drain"}

\* The request ends with an error, answered 500.
PipeFail(what) == [pipe EXCEPT !.pc = "done", !.status = 500, !.error = what]

\* A request enters handle_http_request; save_interaction and the length of
\* its body are given.
PipeStart ==
    /\ pipe.pc = "idle"
    /\ \E save \in BOOLEAN, len \in RequestLengths :
         pipe' = [IdlePipe EXCEPT !.pc = "body", !.save = save, !.reqLen = len]
    /\ UNCHANGED <<config, upd, proc, lvars, evars, hvars, call, ret, fsvars>>

\* to_bytes(body, 10 MiB): an error if the body is longer than the limit or
\* its stream breaks.
PipeReadBody ==
    /\ pipe.pc = "body"
    /\ \E intact \in BOOLEAN :
         pipe' = IF ~intact \/ pipe.reqLen > BodyLimit
                   THEN PipeFail("BodyRead")
                   ELSE [pipe EXCEPT !.pc = "send"]
    /\ UNCHANGED <<config, upd, proc, lvars, evars, hvars, call, ret, fsvars>>

\* create_client_and_send_request: the upstream answers with a status and a
\* body to come, or the request fails.
PipeSend ==
    /\ pipe.pc = "send"
    /\ \/ pipe' = PipeFail("Upstream")
       \/ \E st \in UpstreamStatuses, fr \in ResponseFrames :
            pipe' = [pipe EXCEPT !.pc = "drain", !.upstream = st, !.frames = fr]
    /\ UNCHANGED <<config, upd, proc, lvars, evars, hvars, call, ret, fsvars>>

\* One turn of the loop on resp_body.frame(): a data frame is appended to
\* resp_bytes_vec, or the frame is an error, or the body has ended.
PipeFrame ==
    /\ pipe.pc = "drain"
    /\ IF pipe.frames = <<>>
         THEN pipe' = [pipe EXCEPT !.pc = "store", !.eos = TRUE]
         ELSE \/ pipe' = [pipe EXCEPT !.got = @ + Head(pipe.frames),
                                      !.frames = Tail(pipe.frames)]
              \/ pipe' = PipeFail("Drain")
    /\ UNCHANGED <<config, upd, proc, lvars, evars, hvars, call, ret, fsvars>>

\* After the loop: with save_interaction the pair is stored (the store may
\* fail), then the response is built from the upstream's status and the bytes
\* drained, and returned.
PipeStore ==
    /\ pipe.pc = "store"
    /\ \E storeOk \in BOOLEAN :
         pipe' = IF pipe.save /\ ~storeOk
                   THEN PipeFail("Store")
                   ELSE [pipe EXCEPT !.pc = "done", !.stored = pipe.save,
                                     !.status = pipe.upstream]
    /\ UNCHANGED <<config, upd, proc, lvars, evars, hvars, call, ret, fsvars>>

\* The client disconnects while its request is being handled.
PipeDisconnect ==
    /\ pipe.pc \in {"body", "send", "drain", "store"}
    /\ ~pipe.gone
    /\ pipe' = [pipe EXCEPT !.gone = TRUE, !.goneAt = pipe.pc]
    /\ UNCHANGED <<config, upd, proc, lvars, evars, hvars, call, ret, fsvars>>

\* The server drops the task of a client that is gone; a task is dropped
\* where it awaits.
PipeCancel ==
    /\ pipe.gone
    /\ pipe.pc \in AwaitPoints
    /\ pipe' = [pipe EXCEPT !.pc = "cancelled"]
    /\ UNCHANGED <<config, upd, proc, lvars, evars, hvars, call, ret, fsvars>>

NextPipeline ==
    \/ PipeStart
    \/ PipeReadBody
    \/ PipeSend
    \/ PipeFrame
    \/ PipeStore
    \/ PipeDisconnect
    \/ PipeCancel

InitPipeline == InitEngine /\ HeadersIdle /\ CallsIdle /\ InitFs /\ ConfigIdle

SpecPipeline == InitPipeline /\ [][NextPipeline]_vars

\* -------------------------------------------------------- replay order

\* The interactions a session may hold, and its lists in the store.
StoredInteractions ==
    {[method |-> k[1], path |-> k[2], status |-> resp.status, body |-> resp.body] :
       k \in RequestKeys, resp \in UpstreamResponses}
StoredLists == UNION {[1 .. n -> StoredInteractions] : n \in 0 .. MaxStored}

\* Session::replay_request on the list the store returned: the response of the
\* interaction the matcher found, or 404.
ReplayAnswer(list, m, p) ==
    LET k == MatchRequest(list, m, p)
    IN IF k = 0 THEN [kind |-> "miss", status |-> 404, body |-> MissBody]
       ELSE [kind |-> "hit", status |-> list[k].status, body |-> list[k].body]

\* The memory store with the list under session s1.
StoreWith(list) == [s \in SessionIds |-> IF s = "s1" THEN list ELSE <<>>]

\* A session's recordings, one more interaction to record, and the request
\* replayed before and after it.
InitReplayOrder ==
    /\ InitEngine
    /\ HeadersIdle
    /\ InitFs
    /\ ConfigIdle
    /\ \E list \in StoredLists, again \in StoredInteractions, k \in RequestKeys :
         call = [fn |-> "replay", list |-> list, again |-> again,
                 method |-> k[1], path |-> k[2]]
    /\ ret = NoRet

\* replay_request, then store_interaction of one more recording, then
\* replay_request of the same request.
ReplayTwice ==
    /\ call.fn = "replay"
    /\ ret = NoRet
    /\ LET later == StoreInteraction(StoreWith(call.list), "s1", call.again)
       IN ret' = [fn |-> "replay",
                  before |-> ReplayAnswer(call.list, call.method, call.path),
                  list |-> later["s1"],
                  after |-> ReplayAnswer(later["s1"], call.method, call.path)]
    /\ UNCHANGED <<evars, hvars, call, fsvars, cvars>>

NextReplayOrder == ReplayTwice

SpecReplayOrder == InitReplayOrder /\ [][NextReplayOrder]_vars

\* ------------------------------------------------------------ memory store

\* MemoryStorage::store_interaction, under the store's mutex: the request and
\* the response are converted (a conversion may fail, and nothing is stored),
\* then the interaction is pushed.
MemStore(s, i, converts) ==
    /\ Len(interactions[s]) < MaxStored
    /\ IF converts
         THEN /\ interactions' = StoreInteraction(interactions, s, i)
              /\ recorded' = recorded \cup {<<s, i.method, i.path>>}
         ELSE UNCHANGED <<interactions, recorded>>
    /\ ret' = [fn |-> "store", sid |-> s, res |-> IF converts THEN "ok" ELSE "err"]
    /\ UNCHANGED <<registry, objs, req, out, hvars, call, fsvars, cvars>>

\* MemoryStorage::get_interactions, under the store's mutex: the session's
\* list in Vec order, empty for a session without an entry.
MemList(s) ==
    /\ ret' = [fn |-> "list", sid |-> s, items |-> interactions[s]]
    /\ UNCHANGED <<evars, hvars, call, fsvars, cvars>>

NextMemory ==
    \/ \E s \in SessionIds, i \in StoredInteractions, converts \in BOOLEAN :
         MemStore(s, i, converts)
    \/ \E s \in SessionIds : MemList(s)
    \/ \E s \in SessionIds : ClearInteractions(s)

SpecMemory == Init /\ [][NextMemory]_vars

\* -------------------------------------------------------- lock discipline

\* What a task is: a data-plane request in SessionManager::process_request, or
\* a create_session, delete_session or update_session_config of the same id.
LockTaskKinds == {"request", "create", "delete", "update"}

\* The positions at which a request task awaits I/O: to_bytes on its body, the
\* upstream call, resp_body.frame().
IoPoints == {"io_body", "io_send", "io_drain"}

\* Every guard of task t is dropped (its function returns).
ReleaseAll(l, t) ==
    [l EXCEPT !.regReaders = @ \ {t},
              !.regWriter = IF @ = t THEN NoTask ELSE @,
              !.cfgReaders = @ \ {t},
              !.cfgWriter = IF @ = t THEN NoTask ELSE @,
              !.lastAccess = IF @ = t THEN NoTask ELSE @,
              !.store = IF @ = t THEN NoTask ELSE @]

\* Faulty variant: the registry guard lives as long as the request.
AfterLookup_GuardKept(l, t) == l

\* SessionManager::process_request: the block around sessions.get().cloned()
\* ends and its read guard is dropped.
AfterLookup(l, t) == [l EXCEPT !.regReaders = @ \ {t}]

\* The task ends with an error; its guards are dropped.
LockFail(t, what) ==
    /\ ltask' = [ltask EXCEPT ![t].pc = "failed", ![t].error = what]
    /\ locks' = ReleaseAll(locks, t)

\* A task starts; tasks are numbered in the order they start.
LkStart(t, kind) ==
    /\ ltask[t].pc = "idle"
    /\ IF t = 1 THEN TRUE ELSE ltask[t - 1].pc # "idle"
    /\ ltask' = [ltask EXCEPT ![t].kind = kind,
                              ![t].pc = IF kind = "request" THEN "lookup"
                                        ELSE IF kind = "update" THEN "regRead"
                                        ELSE "regWrite"]
    /\ UNCHANGED <<locks, config, upd, proc, pipe, evars, hvars, call, ret, fsvars>>

\* SessionManager::process_request: self.sessions.read().await is granted
\* while no writer holds the registry lock.
LkLookup(t) ==
    /\ ltask[t].pc = "lookup"
    /\ locks.regWriter = NoTask
    /\ locks' = [locks EXCEPT !.regReaders = @ \cup {t}]
    /\ ltask' = [ltask EXCEPT ![t].pc = "looked"]
    /\ UNCHANGED <<config, upd, proc, pipe, evars, hvars, call, ret, fsvars>>

\* SessionManager::process_request: sessions.get(&session_id).cloned(), the
\* end of the block; None is answered "Session not found".
LkCloneHandle(t) ==
    /\ ltask[t].pc = "looked"
    /\ IF locks.present
         THEN /\ locks' = AfterLookup(locks, t)
              /\ ltask' = [ltask EXCEPT ![t].pc = "lastAccess"]
         ELSE LockFail(t, "NotFound")
    /\ UNCHANGED <<config, upd, proc, pipe, evars, hvars, call, ret, fsvars>>

\* SessionManager::process_request: session.last_access.lock().await; the
\* guard is a local of the match arm that awaits session.process_request.
LkLastAccess(t) ==
    /\ ltask[t].pc = "lastAccess"
    /\ locks.lastAccess = NoTask
    /\ locks' = [locks EXCEPT !.lastAccess = t]
    /\ ltask' = [ltask EXCEPT ![t].pc = "snapshot"]
    /\ UNCHANGED <<config, upd, proc, pipe, evars, hvars, call, ret, fsvars>>

\* Session::process_request: self.config.read().await.clone(), the read guard
\* being a temporary of the statement, and the match on the snapshot's mode.
\* A request carries an X-Proxy-Target header or not.
LkSnapshot(t) ==
    /\ ltask[t].pc = "snapshot"
    /\ locks.cfgWriter = NoTask
    /\ \E proxy \in BOOLEAN :
         ltask' = [ltask EXCEPT ![t].arm = DispatchArm(locks.mode),
                                ![t].pc = IF locks.mode = "Replay" \/ proxy
                                            THEN "io_body" ELSE "resolve"]
    /\ UNCHANGED <<locks, config, upd, proc, pipe, evars, hvars, call, ret, fsvars>>

\* Session::extract_target_url without X-Proxy-Target: self.config.try_read()
\* gives a guard kept in a local, or fails while a writer holds the lock and
\* the request ends with the no-target error.
LkTryRead(t) ==
    /\ ltask[t].pc = "resolve"
    /\ IF locks.cfgWriter = NoTask
         THEN /\ locks' = [locks EXCEPT !.cfgReaders = @ \cup {t}]
              /\ ltask' = [ltask EXCEPT ![t].pc = "resolved"]
         ELSE LockFail(t, "NoTarget")
    /\ UNCHANGED <<config, upd, proc, pipe, evars, hvars, call, ret, fsvars>>

\* Session::extract_target_url returns the Host header's target; its guard is
\* dropped.
LkResolved(t) ==
    /\ ltask[t].pc = "resolved"
    /\ locks' = [locks EXCEPT !.cfgReaders = @ \ {t}]
    /\ ltask' = [ltask EXCEPT ![t].pc = "io_body"]
    /\ UNCHANGED <<config, upd, proc, pipe, evars, hvars, call, ret, fsvars>>

\* The I/O a request awaits completes or fails: the body is read (then, on the
\* replay arm, the store is consulted), the upstream answers, the response
\* body has been drained (then the interaction is stored).
LkIo(t) ==
    /\ ltask[t].pc \in IoPoints
    /\ \E ok \in BOOLEAN :
         IF ok
           THEN /\ ltask' = [ltask EXCEPT ![t].pc =
                     IF ltask[t].pc = "io_body"
                       THEN (IF ltask[t].arm = "replay" THEN "store" ELSE "io_send")
                     ELSE IF ltask[t].pc = "io_send" THEN "io_drain"
                     ELSE "store"]
                /\ UNCHANGED locks
           ELSE LockFail(t, "Io")
    /\ UNCHANGED <<config, upd, proc, pipe, evars, hvars, call, ret, fsvars>>

\* MemoryStorage::store_interaction or get_interactions:
\* self.interactions.lock() is granted while no other task holds the mutex.
LkStoreLock(t) ==
    /\ ltask[t].pc = "store"
    /\ locks.store = NoTask
    /\ locks' = [locks EXCEPT !.store = t]
    /\ ltask' = [ltask EXCEPT ![t].pc = "storing"]
    /\ UNCHANGED <<config, upd, proc, pipe, evars, hvars, call, ret, fsvars>>

\* The storage call returns and the response is built: the mutex guard, the
\* last_access guard and the session handle are dropped.
LkFinish(t) ==
    /\ ltask[t].pc = "storing"
    /\ locks' = ReleaseAll(locks, t)
    /\ ltask' = [ltask EXCEPT ![t].pc = "done"]
    /\ UNCHANGED <<config, upd, proc, pipe, evars, hvars, call, ret, fsvars>>

\* create_session, delete_session: self.sessions.write().await is granted
\* while nobody holds the registry lock.
LkRegWrite(t) ==
    /\ ltask[t].pc = "regWrite"
    /\ locks.regWriter = NoTask
    /\ locks.regReaders = {}
    /\ locks' = [locks EXCEPT !.regWriter = t]
    /\ ltask' = [ltask EXCEPT ![t].pc = "regWritten"]
    /\ UNCHANGED <<config, upd, proc, pipe, evars, hvars, call, ret, fsvars>>

\* create_session inserts a fresh Session unless the id is registered,
\* delete_session removes the entry unless the id is absent; the write guard
\* is dropped on return.
LkRegWritten(t) ==
    /\ ltask[t].pc = "regWritten"
    /\ LET create == ltask[t].kind = "create"
       IN IF locks.present = create
            THEN LockFail(t, IF create THEN "AlreadyExists" ELSE "NotFound")
            ELSE /\ locks' = [ReleaseAll(locks, t) EXCEPT
                                !.present = create,
                                !.mode = IF create THEN "Record" ELSE @]
                 /\ ltask' = [ltask EXCEPT ![t].pc = "done"]
    /\ UNCHANGED <<config, upd, proc, pipe, evars, hvars, call, ret, fsvars>>

\* update_session_config: self.sessions.read().await and sessions.get(id).
LkUpdateRead(t) ==
    /\ ltask[t].pc = "regRead"
    /\ locks.regWriter = NoTask
    /\ IF locks.present
         THEN /\ locks' = [locks EXCEPT !.regReaders = @ \cup {t}]
              /\ ltask' = [ltask EXCEPT ![t].pc = "cfgWrite"]
         ELSE LockFail(t, "NotFound")
    /\ UNCHANGED <<config, upd, proc, pipe, evars, hvars, call, ret, fsvars>>

\* update_session_config: session.config.write().await is granted while nobody
\* holds the config lock.
LkUpdateWrite(t) ==
    /\ ltask[t].pc = "cfgWrite"
    /\ locks.cfgWriter = NoTask
    /\ locks.cfgReaders = {}
    /\ locks' = [locks EXCEPT !.cfgWriter = t]
    /\ ltask' = [ltask EXCEPT ![t].pc = "cfgWritten"]
    /\ UNCHANGED <<config, upd, proc, pipe, evars, hvars, call, ret, fsvars>>

\* update_session_config: update_fn sets the mode; both guards are dropped on
\* return.
LkUpdateDone(t) ==
    /\ ltask[t].pc = "cfgWritten"
    /\ \E m \in {"Record", "Replay"} :
         locks' = [ReleaseAll(locks, t) EXCEPT !.mode = m]
    /\ ltask' = [ltask EXCEPT ![t].pc = "done"]
    /\ UNCHANGED <<config, upd, proc, pipe, evars, hvars, call, ret, fsvars>>

NextLocks ==
    \/ \E t \in LockTasks, kind \in LockTaskKinds : LkStart(t, kind)
    \/ \E t \in LockTasks : LkLookup(t)
    \/ \E t \in LockTasks : LkCloneHandle(t)
    \/ \E t \in LockTasks : LkLastAccess(t)
    \/ \E t \in LockTasks : LkSnapshot(t)
    \/ \E t \in LockTasks : LkTryRead(t)
    \/ \E t \in LockTasks : LkResolved(t)
    \/ \E t \in LockTasks : LkIo(t)
    \/ \E t \in LockTasks : LkStoreLock(t)
    \/ \E t \in LockTasks : LkFinish(t)
    \/ \E t \in LockTasks : LkRegWrite(t)
    \/ \E t \in LockTasks : LkRegWritten(t)
    \/ \E t \in LockTasks : LkUpdateRead(t)
    \/ \E t \in LockTasks : LkUpdateWrite(t)
    \/ \E t \in LockTasks : LkUpdateDone(t)

InitLocks == InitEngine /\ HeadersIdle /\ CallsIdle /\ InitFs /\ ConfigIdle

SpecLocks == InitLocks /\ [][NextLocks]_vars

\* A step of task t other than the completion of its I/O.
LockStep(t) ==
    \/ \E kind \in LockTaskKinds : LkStart(t, kind)
    \/ LkLookup(t) \/ LkCloneHandle(t) \/ LkLastAccess(t) \/ LkSnapshot(t)
    \/ LkTryRead(t) \/ LkResolved(t) \/ LkStoreLock(t) \/ LkFinish(t)
    \/ LkRegWrite(t) \/ LkRegWritten(t)
    \/ LkUpdateRead(t) \/ LkUpdateWrite(t) \/ LkUpdateDone(t)

\* The runtime runs every task that can run, and tokio's locks are granted in
\* the order they are asked for, so a task that can take a step again and
\* again takes it; the I/O of every task but the first completes (the first
\* task's upstream may never answer).
LocksFairness ==
    /\ \A t \in LockTasks : SF_vars(LockStep(t))
    /\ \A t \in LockTasks \ {1} : WF_vars(LkIo(t))

SpecLocksFair == InitLocks /\ [][NextLocks]_vars /\ LocksFairness

\* ------------------------------------------------------ record, then replay

\* handle_http_request with save_interaction: stored_resp is built from the
\* upstream's status and the drained body, the builder being given no header,
\* and store_interaction converts it with response_to_stored.
RecordedResponse(status, body) ==
    ResponseToStored([status |-> status, headers |-> <<>>, body |-> body]).stored

\* A Replay hit on the stored response: the matcher's stored_to_response, then
\* replay_request's Response::from_parts; the headers as the client reads them.
ReplayedResponse(stored, order) ==
    LET live == StoredToResponse(stored, order).live
    IN [status |-> live.status, headers |-> IterHeaders(live.headers), body |-> live.body]

\* An upstream response was received and drained in Record mode.
InitFidelity ==
    /\ InitEngine
    /\ HeadersIdle
    /\ InitFs
    /\ ConfigIdle
    /\ \E resp \in UpstreamResponses, m \in {x \in HeaderMaps(MaxHeaders) : DistinctNames(x)} :
         call = [fn |-> "record_replay", status |-> resp.status, headers |-> m,
                 body |-> resp.body]
    /\ ret = NoRet

\* The response is returned to the recording client and stored; a later Replay
\* request hits the stored interaction.
RecordThenReplay ==
    /\ call.fn = "record_replay"
    /\ ret = NoRet
    /\ LET client == BuildResponse(call.status, call.headers, call.body)
           stored == RecordedResponse(call.status, call.body)
       IN \E order \in IterationOrders(stored.headers) :
            ret' = [fn |-> "record_replay",
                    client |-> [status |-> client.status, headers |-> client.headers,
                                body |-> client.body],
                    replayed |-> ReplayedResponse(stored, order)]
    /\ UNCHANGED <<evars, hvars, call, fsvars, cvars>>

NextFidelity == RecordThenReplay

SpecFidelity == InitFidelity /\ [][NextFidelity]_vars

\* ----------------------------------------------------------- dynamic values

\* Strings are sequences of characters. The decimal digits and their values.
Digits == <<"0", "1", "2", "3", "4", "5", "6", "7", "8", "9">>
IsDigit(c) == \E d \in 1 .. 10 : Digits[d] = c
DigitValue(c) == (CHOOSE d \in 1 .. 10 : Digits[d] = c) - 1

\* A decimal numeral without its leading zeros ("0" for zero).
RECURSIVE Canonical(_)
Canonical(ds) ==
    IF Len(ds) > 1 /\ ds[1] = "0" THEN Canonical(Tail(ds)) ELSE ds

\* The numeral of a magnitude plus one, of a magnitude above zero minus one.
RECURSIVE AddOne(_)
AddOne(ds) ==
    IF ds = <<>> THEN <<"1">>
    ELSE LET last == ds[Len(ds)]
             front == SubSeq(ds, 1, Len(ds) - 1)
         IN IF last = "9" THEN Append(AddOne(front), "0")
            ELSE Append(front, Digits[DigitValue(last) + 2])

RECURSIVE SubOne(_)
SubOne(ds) ==
    LET last == ds[Len(ds)]
        front == SubSeq(ds, 1, Len(ds) - 1)
    IN IF last = "0" THEN Canonical(Append(SubOne(front), "9"))
       ELSE Canonical(Append(front, Digits[DigitValue(last)]))

\* Whether numeral a (canonical) is at most numeral b (canonical).
RECURSIVE DigitsAtMost(_, _)
DigitsAtMost(a, b) ==
    IF Len(a) # Len(b) THEN Len(a) < Len(b)
    ELSE IF a = <<>> THEN TRUE
    ELSE IF a[1] # b[1] THEN DigitValue(a[1]) < DigitValue(b[1])
    ELSE DigitsAtMost(Tail(a), Tail(b))

\* i64::MAX and the magnitude of i64::MIN, as numerals.
MaxI64 ==
    <<"9", "2", "2", "3", "3", "7", "2", "0", "3", "6", "8", "5", "4", "7", "7", "5", "8", "0", "7">>
MinI64Magnitude == AddOne(MaxI64)

\* str::parse::<i64>: an optional sign, then one digit or more, the value
\* within the range of i64. The value is given as sign and magnitude.
ParseI64(text) ==
    LET signed == text # <<>> /\ text[1] \in {"+", "-"}
        neg == text # <<>> /\ text[1] = "-"
        ds == IF signed THEN Tail(text) ELSE text
        mag == Canonical(ds)
    IN IF ds = <<>> \/ \E i \in 1 .. Len(ds) : ~IsDigit(ds[i])
         THEN [ok |-> FALSE, neg |-> FALSE, mag |-> <<>>]
       ELSE IF ~DigitsAtMost(mag, IF neg THEN MinI64Magnitude ELSE MaxI64)
         THEN [ok |-> FALSE, neg |-> FALSE, mag |-> <<>>]
       ELSE [ok |-> TRUE, neg |-> neg /\ mag # <<"0">>, mag |-> mag]

\* i64::to_string of the number after the one given.
SuccessorText(n) ==
    IF ~n.neg THEN AddOne(n.mag)
    ELSE IF n.mag = <<"1">> THEN <<"0">>
    ELSE <<"-">> \o SubOne(n.mag)

\* How the build treats integer overflow: it panics (overflow checks, the
\* default of a debug build) or wraps (the default of a release build).
Builds == {"checked", "wrapping"}

\* (num + 1).to_string() on an i64.
IncrementI64(n, build) ==
    IF ~n.neg /\ n.mag = MaxI64
      THEN IF build = "checked" THEN [panic |-> TRUE, value |-> <<>>]
           ELSE [panic |-> FALSE, value |-> <<"-">> \o MinI64Magnitude]
    ELSE [panic |-> FALSE, value |-> SuccessorText(n)]

\* Generator names, with the characters of each.
Generators == {"consistent_random", "increment", "fixed"}
NameText(generator) ==
    IF generator = "fixed" THEN <<"f", "i", "x", "e", "d">>
    ELSE IF generator = "increment"
      THEN <<"i", "n", "c", "r", "e", "m", "e", "n", "t">>
    ELSE <<"c", "o", "n", "s", "i", "s", "t", "e", "n", "t", "_", "r", "a", "n", "d", "o", "m">>

\* What thread_rng().sample_iter(&Alphanumeric).take(10) may give: ten
\* letters and digits.
RandomValues ==
    {<<"q", "w", "e", "r", "t", "y", "u", "i", "o", "p">>,
     <<"a", "1", "b", "c", "d", "e", "f", "g", "h", "k">>}

\* Capture group 1 of a match: absent (the group did not take part, or the
\* pattern has none), or its text.
Groups ==
    {[some |-> FALSE, text |-> <<>>]} \cup
    [some : {TRUE},
     text : {<<>>, <<"0">>, <<"9">>, <<"4", "1">>, <<"0", "0", "7">>, <<"+", "5">>,
             <<"-", "1">>, <<"-", "1", "0">>, <<"a", "b">>, <<"1", "a">>, <<"-">>,
             SubOne(MaxI64), MaxI64, MinI64Magnitude,
             <<"-">> \o MinI64Magnitude, <<"-">> \o AddOne(MinI64Magnitude)}]

\* The value of the increment arm when group 1 is absent or does not parse.
IncrementFallback == <<"1">>

\* DynamicValueProcessor::generate_value; random is what the random generator
\* gives this time.
GenerateValue(generator, group, random, build) ==
    IF generator = "consistent_random" THEN [panic |-> FALSE, value |-> random]
    ELSE IF generator = "increment"
      THEN IF group.some /\ ParseI64(group.text).ok
             THEN IncrementI64(ParseI64(group.text), build)
             ELSE [panic |-> FALSE, value |-> IncrementFallback]
    ELSE [panic |-> FALSE, value |-> NameText(generator)]

\* A generator, a capture and a build.
InitGenerate ==
    /\ InitEngine
    /\ HeadersIdle
    /\ InitFs
    /\ ConfigIdle
    /\ \E g \in Generators, group \in Groups, random \in RandomValues, build \in Builds :
         call = [fn |-> "generate_value", generator |-> g, group |-> group,
                 random |-> random, build |-> build]
    /\ ret = NoRet

\* generate_value is called.
Generate ==
    /\ call.fn = "generate_value"
    /\ ret = NoRet
    /\ LET got == GenerateValue(call.generator, call.group, call.random, call.build)
       IN ret' = [fn |-> "generate_value", panic |-> got.panic, value |-> got.value]
    /\ UNCHANGED <<evars, hvars, call, fsvars, cvars>>

NextGenerate == Generate

SpecGenerate == InitGenerate /\ [][NextGenerate]_vars

\* Request bodies given to process_request: up to MaxBody characters.
BodyChars == {"1", "2", "a"}
DynBodies == UNION {[1 .. n -> BodyChars] : n \in 0 .. MaxBody}

\* The position after the run of digits that starts at k.
RECURSIVE RunEnd(_, _)
RunEnd(body, k) ==
    IF k <= Len(body) /\ IsDigit(body[k]) THEN RunEnd(body, k + 1) ELSE k

\* regex.captures_iter(&body) for the pattern (\d+): the matches from left to
\* right, each the longest run of digits; match and group 1 are the same text.
RECURSIVE CapturesFrom(_, _)
CapturesFrom(body, k) ==
    IF k > Len(body) THEN <<>>
    ELSE IF IsDigit(body[k])
      THEN <<SubSeq(body, k, RunEnd(body, k) - 1)>> \o CapturesFrom(body, RunEnd(body, k))
    ELSE CapturesFrom(body, k + 1)

\* str::replace: every occurrence of `from`, found from left to right without
\* overlap, becomes `to`.
RECURSIVE ReplaceFrom(_, _, _, _)
ReplaceFrom(str, k, from, to) ==
    IF k > Len(str) THEN <<>>
    ELSE IF k + Len(from) - 1 <= Len(str) /\ SubSeq(str, k, k + Len(from) - 1) = from
      THEN to \o ReplaceFrom(str, k + Len(from), from, to)
    ELSE <<str[k]>> \o ReplaceFrom(str, k + 1, from, to)

\* self.values.contains_key(full_match).
SeenBefore(values, full_match) == full_match \in DOMAIN values

\* self.values.insert(full_match, new_value).
InsertValue(values, full_match, new_value) ==
    [x \in DOMAIN values \cup {full_match} |->
       IF x = full_match THEN new_value ELSE values[x]]

\* The loop of process_request over the captures of the body, from the k-th:
\* a literal not seen before gets a generated value, then result.replace puts
\* the literal's value for the literal, in the result as it is by then.
RECURSIVE ProcessCaptures(_, _, _, _, _, _)
ProcessCaptures(caps, k, values, result, generator, randoms) ==
    IF k > Len(caps) THEN [values |-> values, result |-> result]
    ELSE LET full_match == caps[k]
             new_value == GenerateValue(generator, [some |-> TRUE, text |-> full_match],
                                        randoms[k], "wrapping").value
             vals == IF SeenBefore(values, full_match) THEN values
                     ELSE InsertValue(values, full_match, new_value)
         IN ProcessCaptures(caps, k + 1, vals,
                            ReplaceFrom(result, 1, full_match, vals[full_match]),
                            generator, randoms)

\* A processor with the pattern (\d+) and a generator, no value recorded, and
\* the bodies it will be given.
InitDynamic ==
    /\ InitEngine
    /\ HeadersIdle
    /\ InitFs
    /\ ConfigIdle
    /\ \E g \in Generators, b1 \in DynBodies, b2 \in DynBodies :
         call = [fn |-> "process_request", generator |-> g, bodies |-> <<b1, b2>>]
    /\ ret = [fn |-> "new", values |-> <<>>, before |-> <<>>, outs |-> <<>>]

\* DynamicValueProcessor::process_request on the next body.
ProcessBody ==
    /\ call.fn = "process_request"
    /\ Len(ret.outs) < Len(call.bodies)
    /\ LET body == call.bodies[Len(ret.outs) + 1]
           caps == CapturesFrom(body, 1)
       IN \E randoms \in [1 .. Len(caps) -> RandomValues] :
            LET got == ProcessCaptures(caps, 1, ret.values, body, call.generator, randoms)
            IN ret' = [fn |-> "process_request", values |-> got.values,
                       before |-> ret.values, outs |-> Append(ret.outs, got.result)]
    /\ UNCHANGED <<evars, hvars, call, fsvars, cvars>>

NextDynamic == ProcessBody

SpecDynamic == InitDynamic /\ [][NextDynamic]_vars

\* -------------------------------------------------------------- properties

\* The step in which request r is answered in Replay mode.
ReplayAnswered(r) == req[r].pc = "replay" /\ req'[r].pc = "done"

\* The step in which request r is answered.
Answered(r) == req[r].pc # "done" /\ req'[r].pc = "done"

\* The list holds an interaction whose request has method m and path p.
HoldsKey(list, m, p) == \E k \in 1 .. Len(list) : list[k].method = m /\ list[k].path = p

\* The response is that of an interaction of the list with method m, path p.
ReturnsStored(res, list, m, p) ==
    \E k \in 1 .. Len(list) :
        /\ list[k].method = m /\ list[k].path = p
        /\ list[k].status = res.status /\ list[k].body = res.body

\* C1, as stated: once a Record-mode request (m, p) in session s has completed
\* successfully, every later Replay-mode request (m, p) in s, with no clear of
\* s in between, is a hit and returns the status and body of an interaction
\* stored in s whose request has method m and path p.
C1_Literal ==
    [][\A r \in Reqs :
         (/\ ReplayAnswered(r)
          /\ <<req[r].sid, req[r].method, req[r].path>> \in recorded)
         => /\ out'.kind = "hit"
            /\ ReturnsStored(out', interactions[req[r].sid], req[r].method, req[r].path)]_vars

\* The errors of a Replay request whose body or whose session's interactions
\* could not be read.
ReplayFailures == {ErrorResult("BodyRead"), ErrorResult("Match")}

\* C1, amended: once a Record-mode request (m, p) in session s has completed
\* successfully, every later Replay-mode request (m, p) in s that does not fail
\* on reading its body or the store, with no clear of s in between, is a hit
\* and returns the status and body of an interaction stored in s whose request
\* has method m and path p.
C1_RecordThenReplay ==
    [][\A r \in Reqs :
         (/\ ReplayAnswered(r)
          /\ <<req[r].sid, req[r].method, req[r].path>> \in recorded
          /\ out' \notin ReplayFailures)
         => /\ out'.kind = "hit"
            /\ ReturnsStored(out', interactions[req[r].sid], req[r].method, req[r].path)]_vars

\* A recorded upstream 404 was replayed.
C1_Witness == out.kind = "hit" /\ out.status = 404 /\ recorded # {}

\* C2, as stated: a Replay-mode request in a session whose store holds no
\* interaction with the same method and path is answered with 404 and the body
\* "No matching interaction found", not with an error.
C2_Literal ==
    [][\A r \in Reqs :
         (/\ ReplayAnswered(r)
          /\ ~HoldsKey(interactions[req[r].sid], req[r].method, req[r].path))
         => out' = [kind |-> "miss", status |-> 404,
                    body |-> "No matching interaction found"]]_vars

\* C2, amended: a Replay-mode request that does not fail on reading its body
\* or the store, in a session whose store holds no interaction with the same
\* method and path, is answered with 404 and the body "No matching interaction
\* found".
C2_ReplayMiss ==
    [][\A r \in Reqs :
         (/\ ReplayAnswered(r)
          /\ ~HoldsKey(interactions[req[r].sid], req[r].method, req[r].path)
          /\ out' \notin ReplayFailures)
         => out' = [kind |-> "miss", status |-> 404,
                    body |-> "No matching interaction found"]]_vars

\* A Replay request missed while some session holds interactions.
C2_Witness == out.kind = "miss" /\ \E s \in SessionIds : interactions[s] # <<>>

\* C3: a request processed in Replay mode is never sent to an upstream, and
\* the step that answers it, hit or miss, leaves the interactions of every
\* session as they were.
C3_ReplayFrame ==
    [][\A r \in Reqs :
         /\ req'[r].mode = "Replay" => req'[r].pc \notin {"record", "sent"}
         /\ (req[r].mode = "Replay" /\ Answered(r)) => interactions' = interactions]_vars

\* A Replay request was answered while another request is at the upstream.
C3_Witness == out.kind \in {"hit", "miss"} /\ \E r \in Reqs : req[r].pc = "sent"

\* The errors of a request that fails before or during forwarding.
ForwardingErrors == {"NoTarget", "BadUrl", "BodyRead", "Upstream", "Drain"}

\* C4: an interaction is added to a store only by the step that answers a
\* Record-mode request with the upstream's response; a request that fails
\* before or during forwarding leaves every store unchanged; each successful
\* Record request adds exactly one interaction, to its own session.
C4_StoreOnlyOnRecord ==
    [][/\ (\E s \in SessionIds : Len(interactions'[s]) > Len(interactions[s]))
          => \E r \in Reqs : /\ req[r].pc = "sent" /\ req[r].mode = "Record"
                             /\ Answered(r) /\ out'.kind = "upstream"
       /\ \A r \in Reqs :
            (Answered(r) /\ out'.kind = "error" /\ out'.body \in ForwardingErrors)
            => interactions' = interactions
       /\ \A r \in Reqs :
            (req[r].pc = "sent" /\ Answered(r) /\ out'.kind = "upstream")
            => /\ Len(interactions'[req[r].sid]) = Len(interactions[req[r].sid]) + 1
               /\ SubSeq(interactions'[req[r].sid], 1, Len(interactions[req[r].sid]))
                    = interactions[req[r].sid]
               /\ \A s \in SessionIds \ {req[r].sid} : interactions'[s] = interactions[s]]_vars

\* One Record request stored its interaction, another failed while draining.
C4_Witness ==
    /\ out = ErrorResult("Drain")
    /\ \E s \in SessionIds : Len(interactions[s]) = 1
    /\ \A r \in Reqs : req[r].pc = "done"

\* C5: a request processed while its session's mode is Passthrough is
\* forwarded to the upstream (it is not answered at the dispatch).
C5_Passthrough ==
    [][\A r \in Reqs :
         (/\ req[r].pc = "config" /\ req'[r].pc # "config"
          /\ objs[req[r].handle].mode = "Passthrough")
         => req'[r].pc # "done"]_vars

\* C6: while a session exists under id, no step replaces its registry entry
\* (only a delete removes it), every create(id) returns already-exists, and a
\* data-plane create(id) is answered with that error and leaves the session
\* as it was; a create(id) on an absent id succeeds and registers a session.
C6_AtMostOneSession ==
    [][\A id \in SessionIds :
         /\ registry[id] # NoObj
            => /\ registry'[id] \in {registry[id], NoObj}
               /\ \A res \in Results : ControlCreate(id, res) => res = "AlreadyExists"
               /\ \A r \in Reqs :
                    (req[r].pc = "create" /\ req[r].sid = id /\ req'[r].pc # "create")
                    => /\ out' = ErrorResult("AlreadyExists")
                       /\ registry' = registry
                       /\ objs'[registry[id]] = objs[registry[id]]
         /\ registry[id] = NoObj
            => \A res \in Results :
                 ControlCreate(id, res) => res = "Ok" /\ registry'[id] # NoObj]_vars

\* A create was rejected; the session it would have replaced kept its mode.
C6_Witness ==
    /\ out = ErrorResult("AlreadyExists")
    /\ \E id \in SessionIds : registry[id] # NoObj /\ objs[registry[id]].mode = "Replay"

\* C7: a step that removes a session from the registry leaves that session
\* with no interactions in the store.
C7_DeleteRemovesRecordings ==
    [][\A id \in SessionIds :
         (registry[id] # NoObj /\ registry'[id] = NoObj) => interactions'[id] = <<>>]_vars

\* C8: the create step of a data-plane request that found its session absent
\* registers the session, in mode Record, and the request goes on to be
\* processed by it.
C8_AutoCreation ==
    [][\A r \in Reqs :
         (req[r].pc = "create" /\ req'[r].pc # "create")
         => /\ req'[r].pc = "lookup"
            /\ registry'[req[r].sid] # NoObj
            /\ objs'[registry'[req[r].sid]].mode = "Record"]_vars

\* C9: no data-plane request is answered with a session-not-found or a
\* session-already-exists error.
C9_NoSessionErrors ==
    out # ErrorResult("NotFound") /\ out # ErrorResult("AlreadyExists")

\* The names of the hop-by-hop headers, in lower case.
SanitizedNames ==
    {<<"c", "o", "n", "n", "e", "c", "t", "i", "o", "n">>,
     <<"k", "e", "e", "p", "-", "a", "l", "i", "v", "e">>,
     <<"p", "r", "o", "x", "y", "-", "a", "u", "t", "h", "e", "n", "t", "i", "c", "a", "t", "e">>,
     <<"p", "r", "o", "x", "y", "-", "a", "u", "t", "h", "o", "r", "i", "z", "a", "t", "i", "o", "n">>,
     <<"t", "e">>,
     <<"t", "r", "a", "i", "l", "e", "r">>,
     <<"t", "r", "a", "n", "s", "f", "e", "r", "-", "e", "n", "c", "o", "d", "i", "n", "g">>,
     <<"u", "p", "g", "r", "a", "d", "e">>}

\* Whether a header of this lower-case name may reach the upstream.
MayReachUpstream(name) ==
    /\ name \notin SanitizedNames
    /\ ~(/\ Len(name) >= Len(<<"x", "-", "s", "e", "s", "s", "i", "o", "n">>)
         /\ SubSeq(name, 1, Len(<<"x", "-", "s", "e", "s", "s", "i", "o", "n">>)) = <<"x", "-", "s", "e", "s", "s", "i", "o", "n">>)

RECURSIVE Expected(_)
Expected(list) ==
    IF list = <<>> THEN <<>>
    ELSE LET h == list[Len(list)]
             name == ToLowercase(h.name)
             front == Expected(SubSeq(list, 1, Len(list) - 1))
         IN IF MayReachUpstream(name)
              THEN Append(front, [name |-> name, value |-> h.value])
              ELSE front

\* C10: whatever the case of the incoming header names, the headers put on the
\* outbound request are the incoming ones, in lower case, without every
\* hop-by-hop header and every header whose name begins with x-session.
C10_InboundSanitization == hOut = Expected(SubSeq(hIn, 1, hPos))

\* An upper-case hop-by-hop header was dropped and another header forwarded.
C10_Witness ==
    /\ hPos = MaxHeaders
    /\ hIn[1].name = <<"T", "E">>
    /\ Len(hOut) = 1

\* Every value of every header of the map whose name is not hop-by-hop.
RECURSIVE ExpectedClientHeaders(_)
ExpectedClientHeaders(m) ==
    IF m = <<>> THEN <<>>
    ELSE LET e == m[Len(m)]
             front == ExpectedClientHeaders(SubSeq(m, 1, Len(m) - 1))
         IN IF e.name \in SanitizedNames THEN front
            ELSE front \o [i \in 1 .. Len(e.values) |-> [name |-> e.name, value |-> e.values[i]]]

\* C11: the response returned for an upstream response has the upstream's
\* status, the upstream's body, and the upstream's headers with the hop-by-hop
\* headers removed and nothing else removed.
C11_ResponseFidelity ==
    ret.fn = "build_response"
    => /\ ret.status = call.status
       /\ ret.body = call.body
       /\ ret.headers = ExpectedClientHeaders(call.headers)

\* The step in which storage call t runs get_interactions.
ListStep(t) == fsTask[t].pc = "idle" /\ fsTask'[t].pc = "done" /\ fsTask'[t].op = "list"

\* The step in which storage call t runs clear_interactions.
ClearStep(t) == fsTask[t].pc = "idle" /\ fsTask'[t].pc = "done" /\ fsTask'[t].op = "clear"

\* A step of a store_interaction call t.
StoreStep(t) == fsTask[t].pc # "done" /\ fsTask'[t] # fsTask[t] /\ fsTask'[t].op = "store"

\* C12: once store(a) has returned ok in a session, every later list of that
\* session returns ok and includes a, until the session is cleared.
C12_StoreVisibility ==
    [][\A l \in FsTasks :
         ListStep(l)
         => \A a \in fsStored :
              fsTask[a].sid = fsTask'[l].sid
              => fsTask'[l].res = "ok" /\ a \in fsTask'[l].items]_vars

\* C13: a list(s) that runs while stores into s are under way (every file of s
\* that is not whole is being written by a running store) returns ok.
C13_StoreAtomicity ==
    [][\A l \in FsTasks :
         (/\ ListStep(l)
          /\ \A f \in FilesIn(fsFiles, GetSessionPath(fsTask'[l].sid)) :
               ~f.complete => fsTask[f.id].pc = "write")
         => fsTask'[l].res = "ok"]_vars

\* C14: a step of store(s1, ...) or clear(s1) leaves list(s2) unchanged for
\* every session s2 other than s1.
C14_SessionIsolation ==
    [][\A t \in FsTasks :
         (StoreStep(t) \/ ClearStep(t))
         => \A s2 \in FsSessionIds \ {fsTask'[t].sid} :
              GetInteractions(fsDirs', fsFiles', s2) = GetInteractions(fsDirs, fsFiles, s2)]_vars

\* C15: clear(id) on a session id that has no stored interactions leaves the
\* store unchanged (list(s) is the same for every session s), and returns ok
\* when the session has no directory.
C15_ClearWithoutInteractions ==
    [][\A t \in FsTasks :
         (ClearStep(t) /\ FilesIn(fsFiles, GetSessionPath(fsTask'[t].sid)) = {})
         => /\ GetSessionPath(fsTask'[t].sid) \notin fsDirs => fsTask'[t].res = "ok"
            /\ \A s \in FsSessionIds :
                 GetInteractions(fsDirs', fsFiles', s) = GetInteractions(fsDirs, fsFiles, s)]_vars

\* C16, as stated: the session id is the X-Session-Id header value when that
\* header is present, otherwise the value of the session query parameter when
\* present, otherwise "default".
C16_Literal ==
    ret.fn = "extract_session_id"
    => ret.id = IF call.header.kind # "absent" THEN call.header.value
                ELSE IF call.query.kind = "session" THEN call.query.session
                ELSE "default"

\* C16, amended: the session id is the X-Session-Id header value when that
\* header is present with a value that is a string of visible ASCII, otherwise
\* the value of the session query parameter when present, otherwise "default".
C16_SessionIdResolution ==
    ret.fn = "extract_session_id"
    => ret.id = IF call.header.kind = "text" THEN call.header.value
                ELSE IF call.query.kind = "session" THEN call.query.session
                ELSE "default"

\* Header and query parameter were both present, with different values.
C16_Witness ==
    /\ ret.fn = "extract_session_id"
    /\ call.header.kind = "text" /\ call.query.kind = "session"
    /\ call.header.value # call.query.session
    /\ ret.id = call.header.value

\* C17: a request to replay matches a stored interaction if and only if their
\* methods are equal and their URI paths are equal, whatever their query
\* strings, headers and bodies.
C17_MatcherPredicate ==
    ret.fn = "match"
    => (ret.matched <=> /\ call.recorded.method = call.incoming.method
                        /\ call.recorded.uri.path = call.incoming.uri.path)

\* A request matched a recording that differs from it in query and body.
C17_Witness ==
    /\ ret.fn = "match" /\ ret.matched
    /\ call.recorded.uri.query # call.incoming.uri.query
    /\ call.recorded.body # call.incoming.body

\* C18: a mode change made through update_session_config affects only the
\* requests that start after it. A request that took the Record arm before
\* the change forwards whenever its own headers or URI name a target, and a
\* request that reads its mode after an update returned (no other update
\* under way) is dispatched under that update's mode.
C18_ModeChangeTiming ==
    [][\A r \in Reqs :
         /\ (/\ proc[r].pc = "record"
             /\ ExtractTargetUrl(proc[r].shape.proxy, FALSE, proc[r].shape.host,
                                 proc[r].shape.absUri) # NoneStr)
            => proc'[r].pc \in {"record", "forward"}
         /\ (proc[r].pc = "config" /\ proc'[r].pc # "config")
            => \A u \in Updates :
                 (upd[u].pc = "returned" /\ \A u2 \in Updates \ {u} : upd[u2].pc = "idle")
                 => proc'[r].mode = upd[u].mode]_vars

\* The target a session is configured with, as the priority list has it: the
\* target_url set through an update, else the default_target it was created
\* under.
ConfiguredTarget ==
    IF call.updated # "unset" THEN call.updated ELSE call.default_target

\* C19: the upstream base URL is the X-Proxy-Target header if present, else
\* the session's configured target if non-empty (a session created under a
\* default_target has that target), else the Host header, else the authority
\* of an absolute URI. Stated for a config lock that is free.
C19_TargetPriority ==
    (ret.fn = "extract_target_url" /\ ~call.cfgLocked)
    => ret.target = IF call.proxy # "absent" THEN "proxy"
                    ELSE IF ConfiguredTarget # "" THEN "config"
                    ELSE IF call.host THEN "host"
                    ELSE IF call.absUri THEN "authority"
                    ELSE NoneStr

\* Whether bytes k.. of a value are UTF-8 (sequences of one and two bytes).
RECURSIVE Utf8From(_, _)
Utf8From(v, k) ==
    IF k > Len(v) THEN TRUE
    ELSE IF v[k] < 128 THEN Utf8From(v, k + 1)
    ELSE IF v[k] >= 194 /\ v[k] <= 223 /\ k < Len(v) /\ v[k + 1] >= 128 /\ v[k + 1] <= 191
      THEN Utf8From(v, k + 2)
    ELSE FALSE

\* Every header value of a message is UTF-8.
Utf8Headers(m) ==
    \A i \in 1 .. Len(m.headers) :
      \A j \in 1 .. Len(m.headers[i].values) : Utf8From(m.headers[i].values[j], 1)

\* The values of a name in a header map, in order; none if the name is absent.
ValuesOf(headers, name) ==
    IF \E i \in 1 .. Len(headers) : headers[i].name = name
      THEN headers[CHOOSE i \in 1 .. Len(headers) : headers[i].name = name].values
      ELSE <<>>

\* The message that came back equals the one converted: method and URI or
\* status, body, and each name's values in order.
SameMessage(a, b) ==
    /\ IF a.kind = "request" THEN a.method = b.method /\ a.uri = b.uri
       ELSE a.status = b.status
    /\ a.body = b.body
    /\ \A n \in CodecNames : ValuesOf(a.headers, n) = ValuesOf(b.headers, n)

\* C20: a request or response whose header values are UTF-8 converts to
\* stored form and back, and comes back with the same method, URI, status,
\* body and, for each header name, the same values in the same order.
C20_CodecRoundTrip ==
    (ret.fn = "round_trip" /\ Utf8Headers(call.live))
    => (ret.res = "ok" /\ SameMessage(call.live, ret.live))

\* C21: delete(id) succeeds (204) exactly when id is registered; then id is
\* gone and every other session is as it was; on an unknown id it is answered
\* 500 and the registry is unchanged.
C21_DeleteSession ==
    ret.fn = "delete_session"
    => LET before == call.sessions
           after == ret.sessions
       IN IF call.id \in DOMAIN before
            THEN /\ ret.status = 204
                 /\ DOMAIN after = DOMAIN before \ {call.id}
                 /\ \A s \in DOMAIN after : after[s] = before[s]
            ELSE /\ ret.status = 500
                 /\ after = before

\* A session was deleted and a session in Replay mode is still registered.
C21_Witness ==
    /\ ret.fn = "delete_session" /\ ret.status = 204
    /\ \E s \in DOMAIN ret.sessions : ret.sessions[s] = "Replay"

\* C22: a Record request is never dropped once its upstream response has been
\* received in full, and when its client disconnected between the end of the
\* upstream body and the end of the store, the request still ends with the
\* interaction stored, unless the store itself failed.
C22_CancellationSafety ==
    /\ pipe.pc = "cancelled" => ~pipe.eos
    /\ (pipe.save /\ pipe.gone /\ pipe.goneAt = "store" /\ pipe.pc # "store")
       => /\ pipe.pc = "done"
          /\ pipe.stored \/ pipe.error = "Store"

\* The client disconnected after the upstream body had ended, and the
\* interaction was stored.
C22_Witness ==
    pipe.save /\ pipe.gone /\ pipe.goneAt = "store" /\ pipe.pc = "done" /\ pipe.stored

\* C23, as stated: list() contains every registered id and count() is at
\* least 1 when a session is registered, also while other operations run.
C23_Literal ==
    /\ ret.fn = "list_sessions" => DOMAIN call.sessions \subseteq ret.ids
    /\ (ret.fn = "get_session_count" /\ DOMAIN call.sessions # {}) => ret.count >= 1

\* C23, amended: when no writer holds the registry lock at the moment of the
\* call, list() is the set of registered ids and count() their number (at
\* least 1 when a session is registered); when a writer holds it, list() is
\* empty and count() is 0.
C23_ListAfterCreate ==
    /\ ret.fn = "list_sessions"
       => ret.ids = IF call.locked THEN {} ELSE DOMAIN call.sessions
    /\ ret.fn = "get_session_count"
       => /\ ret.count = IF call.locked THEN 0 ELSE Cardinality(DOMAIN call.sessions)
          /\ (~call.locked /\ DOMAIN call.sessions # {}) => ret.count >= 1

\* Two sessions were registered and listed, the registry lock being free.
C23_Witness ==
    /\ ret.fn = "list_sessions" /\ ~call.locked
    /\ {"s1", "s2"} \subseteq DOMAIN call.sessions
    /\ {"s1", "s2"} \subseteq ret.ids

\* C24: no creation registers an empty session id. The control-plane POST
\* answers an empty session_id with 400 and leaves the registry unchanged,
\* and neither it nor the data plane's auto-creation adds the empty id to a
\* registry that does not hold it.
C24_NonEmptyIds ==
    /\ (ret.fn = "create_session" /\ call.id = "")
       => ret.status = 400 /\ ret.sessions = call.sessions
    /\ (ret.fn \in {"create_session", "handle_api_request"} /\ "" \notin DOMAIN call.sessions)
       => "" \notin DOMAIN ret.sessions

\* The positions of a list whose interaction has the request's method and path.
MatchingPositions(list) ==
    {k \in 1 .. Len(list) : list[k].method = call.method /\ list[k].path = call.path}

\* C25: a Replay request is answered with the response of the first
\* interaction, in list order, that has its method and path; in the memory
\* store that is the earliest recorded one, so one more recording does not
\* change the answer of a request that already had a match.
C25_FirstMatchWins ==
    ret.fn = "replay"
    => LET hits == MatchingPositions(call.list)
       IN /\ hits = {} => ret.before.kind = "miss"
          /\ hits # {}
             => LET first == CHOOSE k \in hits : \A j \in hits : k <= j
                IN /\ ret.before = [kind |-> "hit", status |-> call.list[first].status,
                                    body |-> call.list[first].body]
                   /\ ret.after = ret.before

\* Two recordings with different responses matched, a third one with the same
\* method and path was recorded, and the answer stayed that of the first.
C25_Witness ==
    /\ ret.fn = "replay"
    /\ MatchingPositions(call.list) = {1, 2}
    /\ call.list[1].status # call.list[2].status
    /\ call.again.method = call.method /\ call.again.path = call.path
    /\ call.again.status # call.list[1].status
    /\ ret.after.status = call.list[1].status

\* The uppercase name of a method of MatchMethods.
UpperName(m) == IF m = "get" THEN "GET" ELSE m

\* C26: the codec stores a method as its uppercase name, and a request whose
\* method differs from the recorded one only in letter case, on the same
\* path, matches it.
C26_MethodCaseInsensitive ==
    ret.fn = "match"
    => /\ StoredRequestOf(call.recorded).method = UpperName(call.recorded.method)
       /\ (/\ UpperName(call.recorded.method) = UpperName(call.incoming.method)
           /\ call.recorded.uri.path = call.incoming.uri.path)
          => ret.matched

\* C27: the memory store is append-only in insertion order. A step that is
\* not a clear of session s leaves the list of s as it was or adds exactly one
\* element at its end; a list(s) returns the list as it stands. Hence between
\* two clears every result of list(s) is a prefix of every later one.
C27_AppendOnly ==
    [][/\ \A s \in SessionIds :
            \/ ClearInteractions(s)
            \/ interactions'[s] = interactions[s]
            \/ /\ Len(interactions'[s]) = Len(interactions[s]) + 1
               /\ SubSeq(interactions'[s], 1, Len(interactions[s])) = interactions[s]
       /\ (ret'.fn = "list" /\ ret' # ret) => ret'.items = interactions[ret'.sid]]_vars

\* Two different interactions were stored in a session, one after the other.
C27_Witness ==
    /\ ret.fn = "store" /\ ret.res = "ok"
    /\ Len(interactions[ret.sid]) = 2
    /\ interactions[ret.sid][1] # interactions[ret.sid][2]

\* C28: a file of session A that does not hold a whole interaction makes
\* list(A) return an error, and a list of a session none of whose own files is
\* broken returns what it would return if the broken files did not exist.
C28_FailuresConfined ==
    [][\A l \in FsTasks :
         ListStep(l)
         => LET b == fsTask'[l].sid
                broken == {f \in fsFiles : ~f.complete}
            IN /\ (\E f \in broken : fsTask[f.id].sid = b) => fsTask'[l].res = "error"
               /\ (\A f \in broken : fsTask[f.id].sid # b)
                  => LET got == GetInteractions(fsDirs, fsFiles \ broken, b)
                     IN fsTask'[l].res = got.res /\ fsTask'[l].items = got.items]_vars

\* C29: when no storage call is in progress and a store of session s has
\* returned an error, a list of s succeeds, does not return the interaction of
\* the failed store, and returns the interactions stored in s.
C29_FailedStoreRolledBack ==
    [][\A l \in FsTasks :
         (ListStep(l) /\ \A u \in FsTasks : fsTask[u].pc \in {"idle", "done"})
         => \A t \in FsTasks :
              (/\ fsTask[t].op = "store"
               /\ fsTask[t].pc = "done"
               /\ fsTask[t].res = "error"
               /\ fsTask[t].sid = fsTask'[l].sid)
              => /\ fsTask'[l].res = "ok"
                 /\ t \notin fsTask'[l].items
                 /\ {x \in fsStored : fsTask[x].sid = fsTask[t].sid} \subseteq fsTask'[l].items]_vars

\* C30: a request that has ended and whose body, or whose upstream response
\* body as drained, is longer than the 10 MiB limit was answered 500 and
\* nothing was stored for it.
C30_BodyCeiling ==
    (pipe.pc = "done" /\ (pipe.reqLen > BodyLimit \/ pipe.got > BodyLimit))
    => (pipe.status = 500 /\ ~pipe.stored)

\* C31: a request fails with the no-target error only when it has no
\* X-Proxy-Target header, no Host header and no absolute URI; a request with a
\* Host header never fails for lack of a target, whatever updates of the
\* session's config are under way.
C31_NoTargetOnlyWithoutSource ==
    \A r \in Reqs :
      proc[r].error = "NoTarget"
      => /\ proc[r].shape.proxy = "absent"
         /\ ~proc[r].shape.host
         /\ ~proc[r].shape.absUri

\* C32: a request task that awaits I/O (its body, the upstream call, the
\* upstream response body) holds neither the registry lock nor the session's
\* config lock nor the store's mutex, so no create, delete or update waits for
\* a lock held by a request in flight.
C32_LockingDiscipline ==
    \A t \in LockTasks :
      ltask[t].pc \in IoPoints
      => /\ t \notin locks.regReaders
         /\ locks.regWriter # t
         /\ t \notin locks.cfgReaders
         /\ locks.cfgWriter # t
         /\ locks.store # t

\* A request awaits the upstream's answer, and a delete and an update that
\* started after it have both returned.
C32_Witness ==
    /\ ltask[1].kind = "request" /\ ltask[1].pc = "io_send"
    /\ ltask[2].kind = "update" /\ ltask[2].pc = "done"
    /\ ltask[3].kind = "delete" /\ ltask[3].pc = "done"

\* C33: a request does not wait for an earlier request of its session: the
\* second task, when it is a request, eventually ends, even if the I/O of the
\* first task never completes.
C33_ParallelRequests ==
    (ltask[2].kind = "request") ~> (ltask[2].pc \in {"done", "failed"})

\* C34: a lookup of a registered id never reports the session missing and
\* hands the request the registered session; a request that holds a session
\* is never answered with the not-found error, whatever deletes happen
\* meanwhile; and the session it holds stays its own: an entry registered
\* later is never the session a request already holds.
C34_HandleOutlivesDelete ==
    [][\A r \in Reqs :
         /\ (req[r].pc = "lookup" /\ req'[r].pc # "lookup" /\ registry[req[r].sid] # NoObj)
            => req'[r].handle = registry[req[r].sid]
         /\ (req[r].handle # NoObj /\ Answered(r)) => out' # ErrorResult("NotFound")
         /\ \A id \in SessionIds :
              (req[r].handle # NoObj /\ registry'[id] # registry[id])
              => registry'[id] # req[r].handle]_vars

\* A request has been dispatched in a session that was deleted and created
\* again under the same id since the request looked it up.
C34_Witness ==
    \E r \in Reqs :
      /\ req[r].pc \in {"sent", "replay"}
      /\ registry[req[r].sid] \notin {NoObj, req[r].handle}

\* C35: the response a Replay hit returns has the status, the body and the
\* headers of the response the client received when the interaction was
\* recorded.
C35_ReplayFidelity ==
    ret.fn = "record_replay"
    => /\ ret.replayed.status = ret.client.status
       /\ ret.replayed.body = ret.client.body
       /\ ret.replayed.headers = ret.client.headers

\* The body with every match of the pattern replaced, at its place, by the
\* value recorded for its literal.
RECURSIVE MatchesReplaced(_, _, _)
MatchesReplaced(body, k, values) ==
    IF k > Len(body) THEN <<>>
    ELSE IF IsDigit(body[k])
      THEN values[SubSeq(body, k, RunEnd(body, k) - 1)]
           \o MatchesReplaced(body, RunEnd(body, k), values)
    ELSE <<body[k]>> \o MatchesReplaced(body, k + 1, values)

\* C36: within one processor, every literal seen has a recorded value, a
\* recorded value is never overwritten, every occurrence of a literal in a
\* processed body is replaced by the value recorded for it, and the same body
\* processed twice gives the same output.
C36_DynamicConsistency ==
    ret.fn = "process_request"
    => /\ \A lit \in DOMAIN ret.before :
            lit \in DOMAIN ret.values /\ ret.values[lit] = ret.before[lit]
       /\ \A i \in 1 .. Len(ret.outs) :
            ret.outs[i] = MatchesReplaced(call.bodies[i], 1, ret.values)
       /\ (Len(ret.outs) = 2 /\ call.bodies[1] = call.bodies[2])
          => ret.outs[1] = ret.outs[2]

\* C37: the increment generator emits the numeral of n + 1 for every group 1
\* that parses as a signed 64-bit integer n, and "1" when group 1 is absent or
\* does not parse; a generator other than consistent_random and increment
\* emits its own name.
C37_IncrementGenerator ==
    ret.fn = "generate_value"
    => /\ call.generator = "increment"
          => /\ ~ret.panic
             /\ ret.value = IF call.group.some /\ ParseI64(call.group.text).ok
                              THEN SuccessorText(ParseI64(call.group.text))
                              ELSE <<"1">>
       /\ call.generator \notin {"consistent_random", "increment"}
          => ~ret.panic /\ ret.value = NameText(call.generator)

====
